---- MODULE Spec2Model ----
(***************************************************************************)
(* Model of the x-bot posting and monitoring core of kitfunso/boring-maths *)
(* (tools/x-bot/src/poster.py, tools/x-bot/src/monitor.py).                *)
(*                                                                         *)
(* Time is counted in whole seconds since midnight of day 0.  Dates are    *)
(* day numbers, timestamps are second counts; the ISO strings the code     *)
(* stores are an injective, order-preserving encoding of both.             *)
(***************************************************************************)
EXTENDS Integers, Sequences, FiniteSets, Bags, TLC

VARIABLES
    now,                \* wall clock, datetime.now(), in seconds
    max_posts_per_day,  \* Poster.max_posts_per_day (config)
    min_hours_between,  \* Poster.min_hours_between (config)
    state,              \* Poster.state, the in-memory quota state
    poster_file,        \* data/poster_state.json: <<content>>, or NoFile
    pc,                 \* "idle", or "posting" inside post_tweet/post_reply
    call,               \* arguments of the post_tweet/post_reply call in progress
    result,             \* value returned by the last finished Poster call
    raised,             \* the exception that call let escape, or None
    created,            \* whether that call invoked the network's create_tweet
    made,               \* history variable: successful posts per calendar day
    made_unforced,      \* history variable: successful non-forced posts per day
    last_made,          \* history variable: time of the last successful post
    sent,               \* history variable: posts the client has accepted
    min_likes,          \* Monitor.min_likes (config)
    min_retweets,       \* Monitor.min_retweets (config)
    monitor_state,      \* Monitor.state, the in-memory monitor state
    monitor_file,       \* data/monitor_state.json: <<content>>, or NoFile
    verdict,            \* value returned by the last _is_valid_opportunity call
    checked,            \* the tweet that call was made on
    returned,           \* value returned by the last other Monitor call
    search_run,         \* the search_opportunities call in progress: its
                        \* arguments, what the client returns, its position
                        \* in the loops and its local list opportunities
    reply_run,          \* the reply command in progress: its list of pending
                        \* opportunities and its position in it
    replied_to          \* history variable: the bag of the tweet ids that
                        \* were replied to with success

poster_vars == <<max_posts_per_day, min_hours_between, state, poster_file, pc,
                 call, result, raised, created, made, made_unforced, last_made,
                 sent>>

monitor_vars == <<min_likes, min_retweets, monitor_state, monitor_file, verdict,
                  checked, returned, search_run>>

cli_vars == <<reply_run, replied_to>>

vars == <<now, poster_vars, monitor_vars, cli_vars>>

----------------------------------------------------------------------------
(* Bounds of the model *)

MaxHours == 48          \* the clock stops after this many hours
ClockStepHours == 6     \* granularity of the clock in the posting model
MaxPosts == 2           \* posts the client accepts in one behaviour
MaxConfigPosts == 2     \* largest configured max_posts_per_day
MaxConfigHours == 8     \* largest configured min_hours_between_posts
MaxElapsedSteps == 960  \* elapsed times tried on the wait computation
WaitStepSeconds == 15   \* granularity of those elapsed times
MaxReplied == 2         \* calls of mark_replied in one behaviour
MaxPerKeyword == 2      \* largest max_per_keyword of a search with few results
MaxFresh == 53          \* further tweets a search with many results can return
FillerBase == 1000      \* the ids of long-forgotten tweets lie above this
MaxScoreLikes == 11     \* largest like_count a score is computed for
MaxScoreReplies == 6    \* largest reply_count a score is computed for
MaxRunSeen == 2         \* a search followed step by step or of a busy day starts below this many seen tweets

(* Program and calendar constants *)

SecondsPerHour == 3600
SecondsPerMinute == 60
HoursPerDay == 24
DaysPerWeek == 7
HistoryMax == 100
MaxTweetLen == 280
DefaultMinHours == 4
EpochWeekday == 3       \* day 0 of the model is a Thursday

None == "None"       \* Python's None where the other values are strings
NoTime == -1         \* None as last_post_time
NoDate == -1         \* None as today_date
NoWait == -1         \* a result that carries no wait
NoFile == <<>>       \* the state file does not exist
NoCall == [op |-> "none", force |-> FALSE, slug |-> None, len |-> 0,
           entry |-> <<>>]
NoResult == [op |-> "none", force |-> FALSE, success |-> FALSE,
             reason |-> "none", wait |-> NoWait]

SecondsPerDay == HoursPerDay * SecondsPerHour
MaxDay == MaxHours \div HoursPerDay
Days == 0..MaxDay

Calculators == {"fire-calculator"}
Slugs == Calculators \cup {None}

\* poster.py:40, the default posting days Monday..Friday
days == {0, 1, 2, 3, 4}

----------------------------------------------------------------------------
(* Clock conversions *)

\* datetime.now().strftime("%Y-%m-%d"): the calendar day of a time
today(t) == t \div SecondsPerDay

\* datetime.now().weekday(): 0 = Monday .. 6 = Sunday
weekday(t) == (today(t) + EpochWeekday) % DaysPerWeek

----------------------------------------------------------------------------
(* Poster *)

\* Poster._load_state, the state when no state file exists
DefaultState ==
    [last_post_time |-> NoTime,
     posts_today |-> 0,
     today_date |-> NoDate,
     posted_calculators |-> <<>>,
     history |-> <<>>]

\* Poster._load_state
load_state(file) == IF file = NoFile THEN DefaultState ELSE file[1]

\* a reset that moves the day marker and forgets to clear the counters
reset_keeps_counters(st, t) ==
    IF st.today_date # today(t) THEN [st EXCEPT !.today_date = today(t)] ELSE st

\* Poster._reset_daily_counters: the state it leaves at time t
reset_daily_counters(st, t) ==
    IF st.today_date # today(t)
    THEN [st EXCEPT !.today_date = today(t),
                    !.posts_today = 0,
                    !.posted_calculators = <<>>]
    ELSE st

\* the file after _reset_daily_counters: it saves only when it reset
file_after_reset(st, t, file) ==
    IF st.today_date # today(t) THEN <<reset_daily_counters(st, t)>> ELSE file

\* (datetime.now() - last_dt).total_seconds() / 3600 is exact in binary
\* floating point when the elapsed seconds are a multiple of 3600 / 16
FloatExact(elapsed) == elapsed % (SecondsPerHour \div 16) = 0

\* int((min_hours_between - hours_since) * 60): the values the float
\* computation can yield.  remaining is the exact number of seconds left.
\* The product is truncated toward zero; when it is not computed exactly and
\* the exact value is a whole number of minutes, rounding may leave it just
\* below that whole number, and truncation then yields one minute less.
wait_mins_rounded_up(mh, elapsed) ==
    {(mh * SecondsPerHour - elapsed + SecondsPerMinute - 1) \div SecondsPerMinute}

wait_mins(mh, elapsed) ==
    LET remaining == mh * SecondsPerHour - elapsed
        exact == remaining \div SecondsPerMinute
    IN  IF FloatExact(elapsed) \/ remaining % SecondsPerMinute # 0
        THEN {exact}
        ELSE {exact, exact - 1}

\* a spacing check that only looks at posts of the current day
too_soon_same_day(st, t) ==
    /\ st.last_post_time # NoTime
    /\ today(st.last_post_time) = today(t)
    /\ t - st.last_post_time < min_hours_between * SecondsPerHour

\* hours_since < self.min_hours_between
too_soon(st, t) ==
    /\ st.last_post_time # NoTime
    /\ t - st.last_post_time < min_hours_between * SecondsPerHour

\* a quota check that looks at the weekday before the spacing
can_post_day_first(st, t) ==
    IF st.posts_today >= max_posts_per_day
    THEN {[ok |-> FALSE, reason |-> "daily_limit_reached", wait |-> NoWait]}
    ELSE IF weekday(t) \notin days
    THEN {[ok |-> FALSE, reason |-> "not_a_posting_day", wait |-> NoWait]}
    ELSE IF too_soon(st, t)
    THEN {[ok |-> FALSE, reason |-> "too_soon_since_last_post", wait |-> w] :
            w \in wait_mins(min_hours_between, t - st.last_post_time)}
    ELSE {[ok |-> TRUE, reason |-> "OK", wait |-> NoWait]}

\* Poster.can_post after its call of _reset_daily_counters: the possible
\* return values on the (already reset) state st at time t
can_post(st, t) ==
    IF st.posts_today >= max_posts_per_day
    THEN {[ok |-> FALSE, reason |-> "daily_limit_reached", wait |-> NoWait]}
    ELSE IF too_soon(st, t)
    THEN {[ok |-> FALSE, reason |-> "too_soon_since_last_post", wait |-> w] :
            w \in wait_mins(min_hours_between, t - st.last_post_time)}
    ELSE IF weekday(t) \notin days
    THEN {[ok |-> FALSE, reason |-> "not_a_posting_day", wait |-> NoWait]}
    ELSE {[ok |-> TRUE, reason |-> "OK", wait |-> NoWait]}

\* a cut that keeps the oldest entries
Oldest(s, n) == IF Len(s) <= n THEN s ELSE SubSeq(s, 1, n)

\* self.state["history"].append({...}); self.state["history"][-100:]
Last(s, n) == IF Len(s) <= n THEN s ELSE SubSeq(s, Len(s) - n + 1, Len(s))

\* post_tweet's state update after client.post_tweet returned
tweet_update(st, t, slug) ==
    [st EXCEPT !.last_post_time = t,
               !.posts_today = @ + 1,
               !.posted_calculators = IF slug # None THEN Append(@, slug) ELSE @,
               !.history = Last(Append(@, [calculator |-> slug]), HistoryMax)]

\* a reply that does not restart the spacing window
reply_update_untimed(st, t) ==
    [st EXCEPT !.posts_today = @ + 1]

\* a reply that is not counted toward the daily limit
reply_update_uncounted(st, t) ==
    [st EXCEPT !.last_post_time = t]

\* post_reply's state update after client.post_tweet returned
reply_update(st, t) ==
    [st EXCEPT !.last_post_time = t,
               !.posts_today = @ + 1]

----------------------------------------------------------------------------
(* Strings.  A Python str that the code inspects is a sequence of
   one-character strings. *)

UpperCase == <<"A", "B", "C", "D", "E", "F", "G", "H", "I", "J", "K", "L", "M",
               "N", "O", "P", "Q", "R", "S", "T", "U", "V", "W", "X", "Y", "Z">>
LowerCase == <<"a", "b", "c", "d", "e", "f", "g", "h", "i", "j", "k", "l", "m",
               "n", "o", "p", "q", "r", "s", "t", "u", "v", "w", "x", "y", "z">>

LowerOf == [c \in {UpperCase[i] : i \in DOMAIN UpperCase} |->
                LowerCase[CHOOSE i \in DOMAIN UpperCase : UpperCase[i] = c]]

LowerChar(c) == IF c \in DOMAIN LowerOf THEN LowerOf[c] ELSE c

\* str.lower()
lower(s) == [i \in 1..Len(s) |-> LowerChar(s[i])]

\* sub in s
contains(sub, s) ==
    \E i \in 0..(Len(s) - Len(sub)) : SubSeq(s, i + 1, i + Len(sub)) = sub

Sp == <<" ">>
W_tip == <<"t", "i", "p">>
W_Tip == <<"T", "i", "p">>
W_calculator == <<"c", "a", "l", "c", "u", "l", "a", "t", "o", "r">>
W_mortgage == <<"m", "o", "r", "t", "g", "a", "g", "e">>
W_home == <<"h", "o", "m", "e">>
W_loan == <<"l", "o", "a", "n">>
W_day == <<"d", "a", "y">>
W_rate == <<"r", "a", "t", "e">>
W_tax == <<"t", "a", "x">>
W_vat == <<"v", "a", "t">>
Q == <<"?">>

----------------------------------------------------------------------------
(* Monitor *)

SeenMax == 500
RepliedMax == 200
OpportunitiesMax == 50

\* Monitor.min_followers, the default (monitor.py:101)
min_followers == 10

\* Monitor.blacklist as configured: one handle, written in capitals
blacklist == {<<"B", "O", "B">>}

\* {b.lower() for b in self.blacklist}
blacklist_lower == {lower(b) : b \in blacklist}

\* Monitor.KEYWORD_CALCULATOR_MAP: its entries <<key, calculator>> in
\* declaration order, which is the order a dict is iterated in
KEYWORD_CALCULATOR_MAP ==
    <<
       <<<<"f", "i", "r", "e", " ", "c", "a", "l", "c", "u", "l", "a", "t", "o", "r">>,
          "fire-calculator">>,
       <<<<"r", "e", "t", "i", "r", "e", "m", "e", "n", "t", " ", "c", "a", "l", "c", "u", "l", "a", "t", "o", "r">>,
          "fire-calculator">>,
       <<<<"f", "i", "n", "a", "n", "c", "i", "a", "l", " ", "i", "n", "d", "e", "p", "e", "n", "d", "e", "n", "c", "e">>,
          "fire-calculator">>,
       <<<<"c", "o", "m", "p", "o", "u", "n", "d", " ", "i", "n", "t", "e", "r", "e", "s", "t">>,
          "compound-interest-calculator">>,
       <<<<"m", "o", "r", "t", "g", "a", "g", "e", " ", "c", "a", "l", "c", "u", "l", "a", "t", "o", "r">>,
          "mortgage-calculator">>,
       <<<<"h", "o", "m", "e", " ", "l", "o", "a", "n">>,
          "mortgage-calculator">>,
       <<<<"t", "i", "p", " ", "c", "a", "l", "c", "u", "l", "a", "t", "o", "r">>,
          "tip-calculator">>,
       <<<<"s", "p", "l", "i", "t", " ", "t", "h", "e", " ", "b", "i", "l", "l">>,
          "tip-calculator">>,
       <<<<"h", "o", "w", " ", "m", "u", "c", "h", " ", "p", "a", "i", "n", "t">>,
          "paint-calculator">>,
       <<<<"p", "a", "i", "n", "t", " ", "c", "a", "l", "c", "u", "l", "a", "t", "o", "r">>,
          "paint-calculator">>,
       <<<<"b", "m", "i", " ", "c", "a", "l", "c", "u", "l", "a", "t", "o", "r">>,
          "bmi-calculator">>,
       <<<<"b", "o", "d", "y", " ", "m", "a", "s", "s", " ", "i", "n", "d", "e", "x">>,
          "bmi-calculator">>,
       <<<<"u", "k", " ", "t", "a", "x", " ", "t", "r", "a", "p">>,
          "uk-100k-tax-trap-calculator">>,
       <<<<"1", "0", "0", "k", " ", "t", "a", "x">>,
          "uk-100k-tax-trap-calculator">>,
       <<<<"s", "t", "u", "d", "e", "n", "t", " ", "l", "o", "a", "n", " ", "c", "a", "l", "c", "u", "l", "a", "t", "o", "r">>,
          "uk-student-loan-calculator">>,
       <<<<"s", "t", "u", "d", "e", "n", "t", " ", "l", "o", "a", "n", " ", "r", "e", "p", "a", "y", "m", "e", "n", "t">>,
          "uk-student-loan-calculator">>,
       <<<<"b", "a", "b", "y", " ", "c", "o", "s", "t">>,
          "baby-cost-calculator">>,
       <<<<"h", "o", "w", " ", "m", "u", "c", "h", " ", "d", "o", "e", "s", " ", "a", " ", "b", "a", "b", "y", " ", "c", "o", "s", "t">>,
          "baby-cost-calculator">>,
       <<<<"w", "e", "d", "d", "i", "n", "g", " ", "a", "l", "c", "o", "h", "o", "l">>,
          "wedding-alcohol-calculator">>,
       <<<<"h", "o", "w", " ", "m", "u", "c", "h", " ", "a", "l", "c", "o", "h", "o", "l", " ", "w", "e", "d", "d", "i", "n", "g">>,
          "wedding-alcohol-calculator">>,
       <<<<"b", "b", "q", " ", "c", "a", "l", "c", "u", "l", "a", "t", "o", "r">>,
          "bbq-calculator">>,
       <<<<"h", "o", "w", " ", "m", "u", "c", "h", " ", "m", "e", "a", "t", " ", "b", "b", "q">>,
          "bbq-calculator">>,
       <<<<"f", "r", "e", "e", "l", "a", "n", "c", "e", " ", "r", "a", "t", "e">>,
          "freelance-day-rate-calculator">>,
       <<<<"d", "a", "y", " ", "r", "a", "t", "e">>,
          "freelance-day-rate-calculator">>,
       <<<<"c", "a", "l", "o", "r", "i", "e", " ", "c", "a", "l", "c", "u", "l", "a", "t", "o", "r">>,
          "calorie-calculator">>,
       <<<<"t", "d", "e", "e", " ", "c", "a", "l", "c", "u", "l", "a", "t", "o", "r">>,
          "calorie-calculator">>,
       <<<<"d", "e", "b", "t", " ", "p", "a", "y", "o", "f", "f">>,
          "debt-payoff-calculator">>,
       <<<<"s", "n", "o", "w", "b", "a", "l", "l", " ", "v", "s", " ", "a", "v", "a", "l", "a", "n", "c", "h", "e">>,
          "debt-payoff-calculator">>,
       <<<<"s", "i", "d", "e", " ", "h", "u", "s", "t", "l", "e", " ", "p", "r", "o", "f", "i", "t">>,
          "side-hustle-calculator">> >>

\* keywords a search is run for: a key of the map, a capitalised part of a
\* key, and a keyword no key matches
Keywords == {W_tip \o Sp \o W_calculator, W_Tip, W_vat}

\* Monitor._load_state, the state when no state file exists
DefaultMonitorState ==
    [seen_tweets |-> <<>>,
     replied_tweets |-> <<>>,
     last_search |-> [k \in Keywords |-> NoTime],
     opportunities |-> <<>>]

\* Monitor._load_state
monitor_load_state(file) == IF file = NoFile THEN DefaultMonitorState ELSE file[1]

\* Monitor._save_state: the lists it keeps, in memory and in the file
monitor_save_state(st) ==
    [st EXCEPT !.seen_tweets = Last(@, SeenMax),
               !.replied_tweets = Last(@, RepliedMax),
               !.opportunities = Last(@, OpportunitiesMax)]

Min(S) == CHOOSE x \in S : \A y \in S : x <= y

Max(S) == CHOOSE x \in S : \A y \in S : x >= y

\* a lookup that walks the map from its last entry to its first
get_calculator_last_entry_first(keyword) ==
    LET k == lower(keyword)
        exact == {i \in DOMAIN KEYWORD_CALCULATOR_MAP :
                    KEYWORD_CALCULATOR_MAP[i][1] = k}
        partial == {i \in DOMAIN KEYWORD_CALCULATOR_MAP :
                      \/ contains(KEYWORD_CALCULATOR_MAP[i][1], k)
                      \/ contains(k, KEYWORD_CALCULATOR_MAP[i][1])}
    IN  IF exact # {} THEN KEYWORD_CALCULATOR_MAP[Max(exact)][2]
        ELSE IF partial # {} THEN KEYWORD_CALCULATOR_MAP[Max(partial)][2]
        ELSE None

\* Monitor._get_calculator_for_keyword
get_calculator_for_keyword(keyword) ==
    LET k == lower(keyword)
        exact == {i \in DOMAIN KEYWORD_CALCULATOR_MAP :
                    KEYWORD_CALCULATOR_MAP[i][1] = k}
        partial == {i \in DOMAIN KEYWORD_CALCULATOR_MAP :
                      \/ contains(KEYWORD_CALCULATOR_MAP[i][1], k)
                      \/ contains(k, KEYWORD_CALCULATOR_MAP[i][1])}
    IN  IF exact # {} THEN KEYWORD_CALCULATOR_MAP[Min(exact)][2]
        ELSE IF partial # {} THEN KEYWORD_CALCULATOR_MAP[Min(partial)][2]
        ELSE None

\* the same, tabulated for the keywords of the model
calculator_for == [k \in Keywords |-> get_calculator_for_keyword(k)]

MinOf(a, b) == IF a <= b THEN a ELSE b

\* a score that looks for the keyword as it is spelled
calculate_relevance_exact_case(tweet, keyword) ==
    LET base == 50
        question == IF contains(Q, tweet.text) THEN 20 ELSE 0
        likes == IF tweet.like_count > 0 THEN MinOf(10, tweet.like_count) ELSE 0
        replies == IF tweet.reply_count > 0 THEN MinOf(10, tweet.reply_count * 2) ELSE 0
        reach == (IF tweet.author_followers > 1000 THEN 10 ELSE 0)
                 + (IF tweet.author_followers > 10000 THEN 10 ELSE 0)
        match == IF contains(keyword, tweet.text) THEN 10 ELSE 0
    IN  MinOf(100, base + question + likes + replies + reach + match)

\* a score without the final min(1.0, score)
calculate_relevance_unclamped(tweet, keyword) ==
    LET base == 50
        question == IF contains(Q, tweet.text) THEN 20 ELSE 0
        likes == IF tweet.like_count > 0 THEN MinOf(10, tweet.like_count) ELSE 0
        replies == IF tweet.reply_count > 0 THEN MinOf(10, tweet.reply_count * 2) ELSE 0
        reach == (IF tweet.author_followers > 1000 THEN 10 ELSE 0)
                 + (IF tweet.author_followers > 10000 THEN 10 ELSE 0)
        match == IF contains(lower(keyword), lower(tweet.text)) THEN 10 ELSE 0
    IN  base + question + likes + replies + reach + match

\* a like bonus that wraps around at ten likes instead of stopping there
calculate_relevance_wrapping(tweet, keyword) ==
    LET base == 50
        question == IF contains(Q, tweet.text) THEN 20 ELSE 0
        likes == IF tweet.like_count > 0 THEN tweet.like_count % 10 ELSE 0
        replies == IF tweet.reply_count > 0 THEN MinOf(10, tweet.reply_count * 2) ELSE 0
        reach == (IF tweet.author_followers > 1000 THEN 10 ELSE 0)
                 + (IF tweet.author_followers > 10000 THEN 10 ELSE 0)
        match == IF contains(lower(keyword), lower(tweet.text)) THEN 10 ELSE 0
    IN  MinOf(100, base + question + likes + replies + reach + match)

\* Monitor._calculate_relevance, in hundredths
calculate_relevance(tweet, keyword) ==
    LET base == 50
        question == IF contains(Q, tweet.text) THEN 20 ELSE 0
        likes == IF tweet.like_count > 0 THEN MinOf(10, tweet.like_count) ELSE 0
        replies == IF tweet.reply_count > 0 THEN MinOf(10, tweet.reply_count * 2) ELSE 0
        reach == (IF tweet.author_followers > 1000 THEN 10 ELSE 0)
                 + (IF tweet.author_followers > 10000 THEN 10 ELSE 0)
        match == IF contains(lower(keyword), lower(tweet.text)) THEN 10 ELSE 0
    IN  MinOf(100, base + question + likes + replies + reach + match)

Members(s) == {s[i] : i \in DOMAIN s}

\* a filter that tests the engagement before the author
is_valid_engagement_first(tweet, st) ==
    IF tweet.id \in Members(st.seen_tweets)
    THEN [valid |-> FALSE, reason |-> "Already seen"]
    ELSE IF tweet.id \in Members(st.replied_tweets)
    THEN [valid |-> FALSE, reason |-> "Already replied"]
    ELSE IF tweet.author_followers < min_followers
    THEN [valid |-> FALSE, reason |-> "Too few followers"]
    ELSE IF tweet.like_count < min_likes
    THEN [valid |-> FALSE, reason |-> "Too few likes"]
    ELSE IF tweet.retweet_count < min_retweets
    THEN [valid |-> FALSE, reason |-> "Too few retweets"]
    ELSE IF lower(tweet.author_username) \in blacklist_lower
    THEN [valid |-> FALSE, reason |-> "Blacklisted author"]
    ELSE [valid |-> TRUE, reason |-> "OK"]

\* a filter that forgets the replied list
is_valid_ignoring_replied(tweet, st) ==
    IF tweet.id \in Members(st.seen_tweets)
    THEN [valid |-> FALSE, reason |-> "Already seen"]
    ELSE IF lower(tweet.author_username) \in blacklist_lower
    THEN [valid |-> FALSE, reason |-> "Blacklisted author"]
    ELSE IF tweet.author_followers < min_followers
    THEN [valid |-> FALSE, reason |-> "Too few followers"]
    ELSE IF tweet.like_count < min_likes
    THEN [valid |-> FALSE, reason |-> "Too few likes"]
    ELSE IF tweet.retweet_count < min_retweets
    THEN [valid |-> FALSE, reason |-> "Too few retweets"]
    ELSE [valid |-> TRUE, reason |-> "OK"]

\* a filter that compares the handle with the blacklist letter for letter
is_valid_case_sensitive(tweet, st) ==
    IF tweet.id \in Members(st.seen_tweets)
    THEN [valid |-> FALSE, reason |-> "Already seen"]
    ELSE IF tweet.id \in Members(st.replied_tweets)
    THEN [valid |-> FALSE, reason |-> "Already replied"]
    ELSE IF tweet.author_username \in blacklist
    THEN [valid |-> FALSE, reason |-> "Blacklisted author"]
    ELSE IF tweet.author_followers < min_followers
    THEN [valid |-> FALSE, reason |-> "Too few followers"]
    ELSE IF tweet.like_count < min_likes
    THEN [valid |-> FALSE, reason |-> "Too few likes"]
    ELSE IF tweet.retweet_count < min_retweets
    THEN [valid |-> FALSE, reason |-> "Too few retweets"]
    ELSE [valid |-> TRUE, reason |-> "OK"]

\* Monitor._is_valid_opportunity
is_valid_opportunity(tweet, st) ==
    IF tweet.id \in Members(st.seen_tweets)
    THEN [valid |-> FALSE, reason |-> "Already seen"]
    ELSE IF tweet.id \in Members(st.replied_tweets)
    THEN [valid |-> FALSE, reason |-> "Already replied"]
    ELSE IF lower(tweet.author_username) \in blacklist_lower
    THEN [valid |-> FALSE, reason |-> "Blacklisted author"]
    ELSE IF tweet.author_followers < min_followers
    THEN [valid |-> FALSE, reason |-> "Too few followers"]
    ELSE IF tweet.like_count < min_likes
    THEN [valid |-> FALSE, reason |-> "Too few likes"]
    ELSE IF tweet.retweet_count < min_retweets
    THEN [valid |-> FALSE, reason |-> "Too few retweets"]
    ELSE [valid |-> TRUE, reason |-> "OK"]

H_amy == <<"a", "m", "y">>
H_Bob == <<"B", "o", "b">>
H_bob == <<"b", "o", "b">>

\* the tweets client.search_recent can return (client.py:163-174)
Pool ==
    {[id |-> 1, text |-> W_tip \o Sp \o W_calculator \o Q, author_username |-> H_amy,
      author_followers |-> 2000, like_count |-> 3, retweet_count |-> 1,
      reply_count |-> 1],
     [id |-> 2, text |-> W_day \o Sp \o W_rate, author_username |-> H_amy,
      author_followers |-> 10, like_count |-> 0, retweet_count |-> 1,
      reply_count |-> 0],
     [id |-> 3, text |-> W_Tip, author_username |-> H_Bob,
      author_followers |-> 20000, like_count |-> 20, retweet_count |-> 1,
      reply_count |-> 0]}

TweetIds == {t.id : t \in Pool}

\* a tweet that earns every bonus of the score, with counts far beyond
\* the caps
Star ==
    [id |-> 99, text |-> W_tip \o Sp \o W_calculator \o Q, author_username |-> H_amy,
     author_followers |-> 1000000, like_count |-> 1000000, retweet_count |-> 1000,
     reply_count |-> 100000]

\* further tweets client.search_recent can return, all by an admissible
\* author: every fourth asks a question, the likes go 0, 1, 2
Fresh(i) ==
    [id |-> i,
     text |-> IF i % 4 = 0 THEN W_tip \o Sp \o W_calculator \o Q ELSE W_Tip,
     author_username |-> H_amy,
     author_followers |-> min_followers, like_count |-> i % 3,
     retweet_count |-> 1, reply_count |-> 0]

FreshIds == (Cardinality(Pool) + 1)..(Cardinality(Pool) + MaxFresh)
FreshPool == {Fresh(i) : i \in FreshIds}

\* the results of a search on a busy day: one tweet more than the seen
\* list keeps, all of them new
CrowdBase == 100
CrowdIds == (CrowdBase + 1)..(CrowdBase + SeenMax + 1)
Crowd == {Fresh(i) : i \in CrowdIds}

\* the same, tabulated for the tweets and keywords of a search
relevance_for == [tweet \in Pool \cup FreshPool \cup Crowd \cup {Star} |->
                    [k \in Keywords |-> calculate_relevance(tweet, k)]]

\* Opportunity(...).to_dict()
opportunity(tweet, keyword, calculator) ==
    [tweet_id |-> tweet.id,
     author |-> tweet.author_username,
     matched_keyword |-> keyword,
     suggested_calculator |-> calculator,
     relevance_score |-> relevance_for[tweet][keyword]]

\* Opportunity(...).to_dict() with the suggested reply, where reply tells
\* how the text was made
opportunity_with_reply(tweet, keyword, calculator, reply) ==
    [tweet_id |-> tweet.id,
     author |-> tweet.author_username,
     matched_keyword |-> keyword,
     suggested_calculator |-> calculator,
     suggested_reply |-> reply,
     relevance_score |-> relevance_for[tweet][keyword]]

\* a loop body that forgets to mark the tweet as seen
scan_tweet_unmarked(tweet, keyword, calculator, run) ==
    IF ~is_valid_opportunity(tweet, run.st).valid
    THEN run
    ELSE [st |-> run.st,
          opps |-> Append(run.opps, opportunity(tweet, keyword, calculator))]

\* search_opportunities, the body of the loop over tweets[:max_per_keyword].
\* run is the run so far: st is self.state, opps the local list opportunities
scan_tweet(tweet, keyword, calculator, run) ==
    IF ~is_valid_opportunity(tweet, run.st).valid
    THEN run
    ELSE [st |-> [run.st EXCEPT !.seen_tweets = Append(@, tweet.id)],
          opps |-> Append(run.opps, opportunity(tweet, keyword, calculator))]

\* search_opportunities, the loop over tweets[:max_per_keyword]: the first
\* half of the tweets in their order, then the second half from the state
\* and the opportunities the first half leaves
RECURSIVE scan_tweets(_, _, _, _)
scan_tweets(tweets, keyword, calculator, run) ==
    IF tweets = <<>>
    THEN run
    ELSE IF Len(tweets) = 1
    THEN scan_tweet(tweets[1], keyword, calculator, run)
    ELSE CHOOSE out \in
            {scan_tweets(SubSeq(tweets, Len(tweets) \div 2 + 1, Len(tweets)),
                         keyword, calculator, half) :
                half \in {scan_tweets(SubSeq(tweets, 1, Len(tweets) \div 2),
                                      keyword, calculator, run)}} : TRUE

\* tweets[:n]
First(s, n) == IF Len(s) <= n THEN s ELSE SubSeq(s, 1, n)

\* search_opportunities, the loop over the keywords.  fetched[i] is what
\* client.search_recent does for the i-th keyword: it raises, or returns tweets
\* self.state["last_search"][keyword] = datetime.now().isoformat()
searched(run, keyword, t) == [run EXCEPT !.st.last_search[keyword] = t]

RECURSIVE scan_keywords(_, _, _, _, _)
scan_keywords(keywords, fetched, max_per_keyword, t, run) ==
    IF keywords = <<>>
    THEN run
    ELSE IF calculator_for[Head(keywords)] = None \/ Head(fetched).raises
    THEN scan_keywords(Tail(keywords), Tail(fetched), max_per_keyword, t, run)
    ELSE scan_keywords(Tail(keywords), Tail(fetched), max_per_keyword, t,
            searched(scan_tweets(First(Head(fetched).tweets, max_per_keyword),
                                 Head(keywords),
                                 calculator_for[Head(keywords)],
                                 run),
                     Head(keywords), t))

\* a mis-sort: a later opportunity goes before the earlier ones of its score
sort_ties_reversed(opps) ==
    LET place == CHOOSE f \in {[i \in DOMAIN opps |->
                    Cardinality({j \in DOMAIN opps :
                        \/ opps[j].relevance_score > opps[i].relevance_score
                        \/ /\ opps[j].relevance_score = opps[i].relevance_score
                           /\ j >= i})]} : f = f
    IN  [k \in DOMAIN opps |-> opps[CHOOSE i \in DOMAIN opps : place[i] = k]]

\* list.sort(key=relevance_score, reverse=True): stable, highest score
\* first.  An opportunity comes after those of a higher score and after
\* the earlier ones of its own score.  place is the table of the places,
\* worked out once
sort_by_relevance(opps) ==
    LET place == CHOOSE f \in {[i \in DOMAIN opps |->
                    Cardinality({j \in DOMAIN opps :
                        \/ opps[j].relevance_score > opps[i].relevance_score
                        \/ /\ opps[j].relevance_score = opps[i].relevance_score
                           /\ j <= i})]} : f = f
    IN  [k \in DOMAIN opps |-> opps[CHOOSE i \in DOMAIN opps : place[i] = k]]

\* opportunities.sort(...); self.state["opportunities"] = [o.to_dict() ...]
store_opportunities(run) ==
    [run.st EXCEPT !.opportunities = sort_by_relevance(run.opps)]

\* a listing that forgets the replied list
pending_ignoring_replied(st) == st.opportunities

\* Monitor.get_pending_opportunities
get_pending_opportunities(st) ==
    SelectSeq(st.opportunities,
              LAMBDA o : o.tweet_id \notin Members(st.replied_tweets))

----------------------------------------------------------------------------
(* ContentGenerator *)

\* ContentGenerator.calculators, loaded from data/calculators.json: the
\* catalog holds the calculators the keywords are mapped to
Catalog == {KEYWORD_CALCULATOR_MAP[i][2] : i \in DOMAIN KEYWORD_CALCULATOR_MAP}

\* what self.llm.chat.completions.create does: it returns a text, or raises
Providers == {"ok", "provider_error"}

\* what a generation meets: the provider's outcomes, or a provider that
\* raises followed by a reply template that template.format cannot fill
Generations == Providers \cup {"template_error"}

\* a generate_reply that lets the provider's exception through
generate_reply_unguarded(calculator_slug, provider) ==
    IF calculator_slug \notin Catalog
    THEN [raises |-> TRUE, text |-> None]
    ELSE IF provider = "ok"
    THEN [raises |-> FALSE, text |-> "llm"]
    ELSE [raises |-> TRUE, text |-> None]

\* ContentGenerator.generate_reply: it raises for a calculator that is not
\* in the catalog; otherwise it returns the provider's text, or the text
\* made from a reply template when the provider raised; an exception of
\* template.format, raised in the except clause, escapes
generate_reply(calculator_slug, provider) ==
    IF calculator_slug \notin Catalog
    THEN [raises |-> TRUE, text |-> None]
    ELSE IF provider = "ok"
    THEN [raises |-> FALSE, text |-> "llm"]
    ELSE IF provider = "provider_error"
    THEN [raises |-> FALSE, text |-> "template"]
    ELSE [raises |-> TRUE, text |-> None]

\* ContentGenerator._generate_with_llm: the provider's text, or the text
\* made from a tweet template when the provider raised
generate_with_llm(provider) ==
    IF provider = "ok"
    THEN [raises |-> FALSE, text |-> "llm"]
    ELSE [raises |-> FALSE, text |-> "template"]

\* the characters str.strip() removes, and those of strip('"\'')
Whitespace == {" ", "\n", "\t", "\r", "\f"}
Quotes == {"\"", "'"}

\* str.strip(chars)
strip_chars(s, chars) ==
    LET kept == {i \in 1..Len(s) : s[i] \notin chars}
    IN  IF kept = {} THEN <<>> ELSE SubSeq(s, Min(kept), Max(kept))

\* s[:k], where a negative k counts from the end
slice_to(s, k) ==
    IF k >= 0 THEN SubSeq(s, 1, MinOf(k, Len(s)))
    ELSE SubSeq(s, 1, Len(s) + k)

\* str.split("\n")
split_lines(s) ==
    LET breaks == {i \in 1..Len(s) : s[i] = "\n"}
        break(j) == IF j = 0 THEN 0
                    ELSE IF j > Cardinality(breaks) THEN Len(s) + 1
                    ELSE CHOOSE b \in breaks :
                            Cardinality({c \in breaks : c < b}) = j - 1
    IN  [j \in 1..(Cardinality(breaks) + 1) |->
            SubSeq(s, break(j - 1) + 1, break(j) - 1)]

\* sep.join(parts)
RECURSIVE join(_, _)
join(sep, parts) ==
    IF parts = <<>> THEN <<>>
    ELSE IF Len(parts) = 1 THEN parts[1]
    ELSE parts[1] \o sep \o join(sep, Tail(parts))

W_http == <<"h", "t", "t", "p">>
Newline == <<"\n">>
Ellipsis == <<".", ".", ".">>

\* the tweet _generate_with_llm makes of the provider's response: stripped
\* of blanks and quotes, the URL added on a line of its own when missing
llm_tweet(response, url) ==
    LET tweet == strip_chars(strip_chars(response, Whitespace), Quotes)
    IN  IF contains(url, tweet) THEN tweet
        ELSE tweet \o Newline \o Newline \o url

\* the limit _fit_to_limit fits to
FitLimit == 280

\* ContentGenerator._fit_to_limit
fit_to_limit(text, hashtags) ==
    LET hashtag_str == IF hashtags # <<>> THEN Sp \o join(Sp, hashtags) ELSE <<>>
        max_text_len == FitLimit - Len(hashtag_str)
        lines == split_lines(text)
        url_lines == SelectSeq(lines, LAMBDA l : contains(W_http, l))
        url_line == IF url_lines # <<>> THEN url_lines[1] ELSE <<>>
        other_lines == SelectSeq(lines, LAMBDA l : ~contains(W_http, l))
        other_text == join(Newline, other_lines)
        available == max_text_len - Len(url_line) - 2
        shortened == IF Len(other_text) > available
                     THEN slice_to(other_text, available - 3) \o Ellipsis
                     ELSE other_text
    IN  IF Len(text) > max_text_len
        THEN strip_chars(shortened \o Newline \o Newline \o url_line, Whitespace)
                \o hashtag_str
        ELSE text \o hashtag_str

\* self._get_calculator_url(calc["slug"]) of the tip calculator, with the
\* default site URL
CalculatorUrl ==
    <<"h", "t", "t", "p", "s", ":", "/", "/", "b", "o", "r", "i", "n", "g", "-", "m", "a", "t", "h", ".", "c", "o", "m", "/", "c", "a", "l", "c", "u", "l", "a", "t", "o", "r", "s", "/", "t", "i", "p", "-", "c", "a", "l", "c", "u", "l", "a", "t", "o", "r">>

\* prose of n characters
Prose(n) == [i \in 1..n |-> "a"]

\* the lengths of the prose of a generated text, from short to well beyond
\* the limit
ProseLengths == {20, 200, 220, 224, 225, 226, 227, 228, 229, 230, 260, 300}

\* the texts a provider or a template yields: prose with the URL on a line
\* of its own after or before it, with the URL inside the line of prose,
\* and without the URL
GeneratedTexts ==
    UNION {{Prose(n) \o Newline \o Newline \o CalculatorUrl,
            CalculatorUrl \o Newline \o Newline \o Prose(n),
            Prose(n) \o Sp \o CalculatorUrl,
            Prose(n)} : n \in ProseLengths}

\* the hashtags _select_hashtags picks: none, one, two
HashtagSelections ==
    {<<>>,
     <<<<"#", "m", "a", "t", "h">>>>,
     <<<<"#", "m", "a", "t", "h">>, <<"#", "c", "a", "l", "c", "u", "l", "a", "t", "o", "r">>>>}

----------------------------------------------------------------------------
(* Inputs of the monitor *)

\* the tweets the filter is called on by itself: every mix of its criteria
CheckTweets ==
    [id : TweetIds, text : {W_tip}, author_username : {H_amy, H_Bob, H_bob},
     author_followers : {min_followers - 1, min_followers},
     like_count : {0, 1}, retweet_count : {0, 1}, reply_count : {0}]

\* result lists without repetition, of at most MaxResults tweets
TweetLists ==
    {<<>>} \cup {<<a>> : a \in Pool}
           \cup ({<<a, b>> : a \in Pool, b \in Pool} \ {<<a, a>> : a \in Pool})

Fetches == {[raises |-> TRUE, tweets |-> <<>>]}
             \cup {[raises |-> FALSE, tweets |-> l] : l \in TweetLists}

\* keyword lists of a search: each keyword alone, and one pair
KeywordLists ==
    {<<k>> : k \in Keywords} \cup {<<W_Tip, W_tip \o Sp \o W_calculator>>}

\* results id first, first + 1, ... of a keyword, as many as the search
\* asks for: max_results = max_per_keyword * 2
results(first, max_per_keyword) ==
    [raises |-> FALSE,
     tweets |-> [i \in 1..MinOf(2 * max_per_keyword,
                                Cardinality(Pool) + MaxFresh - first + 1) |->
                    Fresh(first + i - 1)]]

\* the searches with many results: one keyword with more results than
\* the store keeps, two keywords with results of equal score, and a tweet
\* met long ago
ManySearches ==
    {[keywords |-> <<W_tip \o Sp \o W_calculator>>,
      max_per_keyword |-> OpportunitiesMax + 1,
      fetched |-> <<results(Cardinality(Pool) + 1, OpportunitiesMax + 1)>>],
     [keywords |-> <<W_Tip, W_tip \o Sp \o W_calculator>>, max_per_keyword |-> 2,
      fetched |-> <<results(4, 2), results(16, 2)>>],
     [keywords |-> <<W_tip \o Sp \o W_calculator>>, max_per_keyword |-> 1,
      fetched |-> <<[raises |-> FALSE, tweets |-> <<CHOOSE t \in Pool : t.id = 1>>]>>]}

\* XClient.search_recent asks for min(max_results, 100) tweets
SearchCap == 100

\* the search of a busy day: the two keywords in turn, each time with as
\* many new results as a search returns, SeenMax + 1 in all
CrowdSearch ==
    LET turns == (SeenMax + 1 + SearchCap - 1) \div SearchCap
    IN  [keywords |-> [j \in 1..turns |-> IF j % 2 = 1
                                          THEN W_tip \o Sp \o W_calculator
                                          ELSE W_Tip],
         max_per_keyword |-> SearchCap,
         fetched |-> [j \in 1..turns |->
                        [raises |-> FALSE,
                         tweets |-> [i \in 1..MinOf(SearchCap,
                                                    SeenMax + 1 - (j - 1) * SearchCap) |->
                                        Fresh(CrowdBase + (j - 1) * SearchCap + i)]]]]

\* the result lists of a search that is followed step by step: nothing, one
\* tweet, a blacklisted author before others, two admissible tweets, the
\* tweet with every bonus
PoolTweet(id) == CHOOSE t \in Pool : t.id = id
RunTweetLists ==
    {<<>>, <<PoolTweet(1)>>, <<PoolTweet(3), PoolTweet(1)>>,
     <<PoolTweet(1), PoolTweet(2)>>, <<Star, PoolTweet(2)>>,
     <<PoolTweet(3), PoolTweet(1), PoolTweet(2)>>}

RunFetches == {[raises |-> TRUE, tweets |-> <<>>]}
                \cup {[raises |-> FALSE, tweets |-> l] : l \in RunTweetLists}

\* the tweets and keywords a score is computed for: every term of the
\* score at, below and above its thresholds
ScoreTweets ==
    [id : {1}, text : {W_day, W_day \o Q, W_Tip, W_Tip \o Q,
                       W_tip \o Sp \o W_calculator},
     author_username : {H_amy},
     author_followers : {0, 1000, 1001, 10000, 10001},
     like_count : 0..MaxScoreLikes, retweet_count : {0},
     reply_count : 0..MaxScoreReplies]

ScoreKeywords == {W_tip, W_Tip, W_tax, W_tip \o Sp \o W_calculator}

\* str.upper(), to spell the keywords of a lookup
UpperOf == [c \in {LowerCase[i] : i \in DOMAIN LowerCase} |->
                UpperCase[CHOOSE i \in DOMAIN LowerCase : LowerCase[i] = c]]
upper(s) == [i \in 1..Len(s) |-> IF s[i] \in DOMAIN UpperOf THEN UpperOf[s[i]] ELSE s[i]]
capitalize(s) == IF s = <<>> THEN s ELSE upper(<<s[1]>>) \o Tail(s)

\* the keywords a calculator is looked up for: keys of the map, parts of
\* keys, phrases around keys and words no key has, each as it is, in
\* capitals and capitalised, alone and inside a longer phrase
ResolveCores ==
    {W_mortgage \o Sp \o W_calculator, W_home \o Sp \o W_loan,
     W_tip \o Sp \o W_calculator, W_day \o Sp \o W_rate,
     W_calculator, W_loan, W_rate, W_tip, W_tax, W_vat, W_mortgage, W_day,
     <<"b", "m", "i">>, <<"b", "b", "q">>, <<"1", "0", "0", "k">>, <<"a">>, <<>>}

ResolveKeywords ==
    UNION {{p \o c \o e : c \in {core, upper(core), capitalize(core)}} :
              core \in ResolveCores,
              p \in {<<>>, <<"m", "y", " ">>},
              e \in {<<>>, <<" ", "u", "k">>}}

NoVerdict == [valid |-> FALSE, reason |-> "none"]
NoReturn == [op |-> "none", value |-> <<>>]
NoReplyRun == [pc |-> "idle", pending |-> <<>>, i |-> 0]
NoRun == [pc |-> "idle", keywords |-> <<>>, max_per_keyword |-> 0,
          fetched |-> <<>>, k |-> 0, i |-> 0, opportunities |-> <<>>]
NoTweet == [id |-> 0, text |-> <<>>, author_username |-> <<>>,
            author_followers |-> 0, like_count |-> 0, retweet_count |-> 0,
            reply_count |-> 0]

----------------------------------------------------------------------------
(* Initial states: the objects as constructed when no state file exists *)

PosterInit ==
    /\ state = DefaultState
    /\ poster_file = NoFile
    /\ pc = "idle"
    /\ call = NoCall
    /\ result = NoResult
    /\ raised = None
    /\ created = FALSE
    /\ made = [d \in Days |-> 0]
    /\ made_unforced = [d \in Days |-> 0]
    /\ last_made = NoTime
    /\ sent = 0

MonitorInit ==
    /\ monitor_state = DefaultMonitorState
    /\ monitor_file = NoFile
    /\ verdict = NoVerdict
    /\ checked = NoTweet
    /\ returned = NoReturn
    /\ search_run = NoRun
    /\ reply_run = NoReplyRun
    /\ replied_to = EmptyBag

Init ==
    /\ now = 0
    /\ max_posts_per_day \in 1..MaxConfigPosts
    /\ min_hours_between \in {0, MaxConfigHours}
    /\ PosterInit
    /\ min_likes = 0
    /\ min_retweets = 0
    /\ MonitorInit

\* a Poster with one post a day and the largest spacing, a Monitor with
\* thresholds of 0
InitFaults ==
    /\ now = 0
    /\ max_posts_per_day = 1
    /\ min_hours_between = MaxConfigHours
    /\ PosterInit
    /\ min_likes = 0
    /\ min_retweets = 0
    /\ MonitorInit

InitMonitor ==
    /\ now = 0
    /\ max_posts_per_day = 1
    /\ min_hours_between = DefaultMinHours
    /\ PosterInit
    /\ min_likes \in {0, 1}
    /\ min_retweets \in {0, 1}
    /\ MonitorInit

\* a Poster constructed from the state file that a post at time 0 left,
\* some time later on the same day
InitWait ==
    /\ now \in {k * WaitStepSeconds : k \in 0..MaxElapsedSteps}
    /\ today(now) = 0
    /\ max_posts_per_day = MaxConfigPosts
    /\ min_hours_between \in {1, DefaultMinHours}
    /\ state = [DefaultState EXCEPT !.last_post_time = 0,
                                    !.posts_today = 1,
                                    !.today_date = 0,
                                    !.history = <<[calculator |-> None]>>]
    /\ poster_file = <<state>>
    /\ pc = "idle"
    /\ call = NoCall
    /\ result = NoResult
    /\ raised = None
    /\ created = FALSE
    /\ made = [d \in Days |-> IF d = 0 THEN 1 ELSE 0]
    /\ made_unforced = [d \in Days |-> 0]
    /\ last_made = 0
    /\ sent = 1
    /\ min_likes = 0
    /\ min_retweets = 0
    /\ MonitorInit

\* long-forgotten entries of a list
Filler(n) == [i \in 1..n |-> FillerBase + i]
HistoryFiller(n) == [i \in 1..n |-> [calculator |-> IF i = 1 THEN None
                                                    ELSE "fire-calculator"]]

\* a Poster and a Monitor constructed from the state files of a long run:
\* the lists are at their bounds or one below.  Tweet 1 was found and
\* replied to first, the other entries came after it; the last search
\* found nothing.  The last post was made at time 0, a day ago
InitRetention ==
    /\ now = HoursPerDay * SecondsPerHour
    /\ max_posts_per_day = MaxConfigPosts
    /\ min_hours_between = MaxConfigHours
    /\ state = [DefaultState EXCEPT !.last_post_time = 0,
                                    !.posts_today = 1,
                                    !.today_date = 0,
                                    !.history = HistoryFiller(HistoryMax)]
    /\ poster_file = <<state>>
    /\ pc = "idle"
    /\ call = NoCall
    /\ result = NoResult
    /\ raised = None
    /\ created = FALSE
    /\ made = [d \in Days |-> IF d = 0 THEN 1 ELSE 0]
    /\ made_unforced = [d \in Days |-> 0]
    /\ last_made = 0
    /\ sent = MaxPosts - 1
    /\ min_likes = 0
    /\ min_retweets = 0
    /\ monitor_state = [seen_tweets |-> <<1>> \o Filler(SeenMax - 2),
                        replied_tweets |-> <<1>> \o Filler(RepliedMax - 1),
                        last_search |-> [k \in Keywords |-> 0],
                        opportunities |-> <<>>]
    /\ monitor_file = <<monitor_state>>
    /\ verdict = NoVerdict
    /\ checked = NoTweet
    /\ returned = NoReturn
    /\ search_run = NoRun
    /\ reply_run = NoReplyRun
    /\ replied_to = SetToBag(Members(monitor_state.replied_tweets))

\* the state files of a long run, both lists of the Monitor at their
\* bounds: tweet 1 was found and replied to first, every other entry came
\* after it.  No call is in progress; the last post was made a day ago
InitReply ==
    /\ now = HoursPerDay * SecondsPerHour
    /\ max_posts_per_day = MaxConfigPosts
    /\ min_hours_between = MaxConfigHours
    /\ state = [DefaultState EXCEPT !.last_post_time = 0,
                                    !.posts_today = 1,
                                    !.today_date = 0]
    /\ poster_file = <<state>>
    /\ pc = "idle"
    /\ call = NoCall
    /\ result = NoResult
    /\ raised = None
    /\ created = FALSE
    /\ made = [d \in Days |-> IF d = 0 THEN 1 ELSE 0]
    /\ made_unforced = [d \in Days |-> IF d = 0 THEN 1 ELSE 0]
    /\ last_made = 0
    /\ sent = 0
    /\ min_likes = 0
    /\ min_retweets = 0
    /\ monitor_state = [seen_tweets |-> <<1>> \o Filler(SeenMax - 1),
                        replied_tweets |-> <<1>> \o Filler(RepliedMax - 1),
                        last_search |-> [k \in Keywords |-> 0],
                        opportunities |-> <<>>]
    /\ monitor_file = <<monitor_state>>
    /\ verdict = NoVerdict
    /\ checked = NoTweet
    /\ returned = NoReturn
    /\ search_run = NoRun
    /\ reply_run = NoReplyRun
    /\ replied_to = SetToBag(Members(monitor_state.replied_tweets))

----------------------------------------------------------------------------
(* Actions of the Poster *)

\* the clock advances; it may do so at any point of a call, in particular
\* between the quota check and client.post_tweet's return.  A returned
\* value is looked at when it is returned: result is forgotten afterwards.
Tick ==
    /\ now + ClockStepHours * SecondsPerHour <= MaxHours * SecondsPerHour
    /\ now' = now + ClockStepHours * SecondsPerHour
    /\ result' = NoResult
    /\ raised' = None
    /\ created' = FALSE
    /\ UNCHANGED <<max_posts_per_day, min_hours_between, state, poster_file, pc,
                   call, made, made_unforced, last_made, sent>>
    /\ UNCHANGED <<monitor_vars, cli_vars>>

\* Poster.get_status / Poster.can_post called on its own
get_status ==
    /\ pc = "idle"
    /\ state' = reset_daily_counters(state, now)
    /\ poster_file' = file_after_reset(state, now, poster_file)
    /\ \E r \in can_post(reset_daily_counters(state, now), now) :
          result' = [op |-> "can_post", force |-> FALSE, success |-> r.ok,
                     reason |-> r.reason, wait |-> r.wait]
    /\ raised' = None
    /\ created' = FALSE
    /\ UNCHANGED <<now, max_posts_per_day, min_hours_between, pc, call,
                   made, made_unforced, last_made, sent>>
    /\ UNCHANGED <<monitor_vars, cli_vars>>

\* the state file after a _save_state that raised: open() raised and the
\* file is as it was, or json.dump raised in the middle of the write and
\* left a file that _load_state cannot read, which it treats as no file
files_after_failed_save(file) == {file, NoFile}

\* a client that passes every text on to the network
client_post_tweet_unchecked(len, network) ==
    IF network # "ok"
    THEN [raises |-> TRUE, error |-> network, created |-> TRUE]
    ELSE [raises |-> FALSE, error |-> None, created |-> TRUE]

\* XClient.post_tweet on a text of len characters, where network is what
\* self.client.create_tweet does when it is called: it returns, or raises
client_post_tweet(len, network) ==
    IF len > MaxTweetLen
    THEN [raises |-> TRUE, error |-> "tweet_too_long", created |-> FALSE]
    ELSE IF network # "ok"
    THEN [raises |-> TRUE, error |-> network, created |-> TRUE]
    ELSE [raises |-> FALSE, error |-> None, created |-> TRUE]

\* post_tweet after the quota check: the text is taken from the arguments
\* or generated.  fault = "generator_error": generator.generate_tweet
\* raises, outside any try
Proceed(op, force, slug, len, fault) ==
    IF fault = "generator_error"
    THEN /\ raised' = "generator_error"
         /\ result' = NoResult
         /\ UNCHANGED <<pc, call>>
    ELSE /\ pc' = "posting"
         /\ call' = [op |-> op, force |-> force, slug |-> slug, len |-> len,
                     entry |-> <<state>>]
         /\ result' = NoResult
         /\ raised' = None

\* post_tweet / post_reply up to the call of client.post_tweet: the quota
\* check unless forced, the early return when it blocks, the text.
\* len is the length of the text to post.  fault is what goes wrong:
\* nothing, the write of the state file in _reset_daily_counters
\* ("save_error", outside any try), or the generator
Begin(op, force, slug, len, fault) ==
    /\ pc = "idle"
    /\ sent < MaxPosts
    /\ fault = "generator_error" => op = "post_tweet" /\ slug # None
    /\ fault = "save_error" => ~force /\ state.today_date # today(now)
    /\ IF force
       THEN /\ Proceed(op, force, slug, len, fault)
            /\ UNCHANGED <<state, poster_file>>
       ELSE IF fault = "save_error"
       THEN /\ state' = reset_daily_counters(state, now)
            /\ poster_file' \in files_after_failed_save(poster_file)
            /\ raised' = "save_error"
            /\ result' = NoResult
            /\ UNCHANGED <<pc, call>>
       ELSE /\ state' = reset_daily_counters(state, now)
            /\ poster_file' = file_after_reset(state, now, poster_file)
            /\ \E r \in can_post(reset_daily_counters(state, now), now) :
                  IF r.ok
                  THEN Proceed(op, force, slug, len, fault)
                  ELSE /\ result' = [op |-> op, force |-> force, success |-> FALSE,
                                     reason |-> r.reason, wait |-> r.wait]
                       /\ raised' = None
                       /\ UNCHANGED <<pc, call>>
    /\ created' = FALSE
    /\ UNCHANGED <<now, max_posts_per_day, min_hours_between,
                   made, made_unforced, last_made, sent>>
    /\ UNCHANGED <<monitor_vars, cli_vars>>

\* the rest of post_tweet / post_reply: client.post_tweet, the state update,
\* the save, the returned dict.  network is what the network does when
\* asked to create the tweet ("ok", or "client_error" when it raises),
\* save what the write of the state file does ("ok" or "save_error")
Finish(op, network, save) ==
    /\ pc = "posting"
    /\ call.op = op
    /\ LET posted == client_post_tweet(call.len, network)
           updated == IF op = "post_tweet"
                      THEN tweet_update(state, now, call.slug)
                      ELSE reply_update(state, now)
           outcome == IF posted.raises THEN posted.error
                      ELSE IF save # "ok" THEN save
                      ELSE "ok"
       IN  /\ state' = IF posted.raises THEN state ELSE updated
           /\ poster_file' \in IF posted.raises THEN {poster_file}
                                ELSE IF save # "ok"
                                THEN files_after_failed_save(poster_file)
                                ELSE {<<updated>>}
           /\ result' = [op |-> op, force |-> call.force, success |-> outcome = "ok",
                         reason |-> outcome, wait |-> NoWait]
           /\ created' = posted.created
           /\ IF outcome = "ok"
              THEN /\ made' = [made EXCEPT ![today(now)] = @ + 1]
                   /\ made_unforced' = IF call.force THEN made_unforced
                                       ELSE [made_unforced EXCEPT ![today(now)] = @ + 1]
                   /\ last_made' = now
              ELSE UNCHANGED <<made, made_unforced, last_made>>
           /\ sent' = IF posted.raises THEN sent ELSE sent + 1
    /\ raised' = None
    /\ pc' = "idle"
    /\ call' = NoCall
    /\ UNCHANGED <<now, max_posts_per_day, min_hours_between>>
    /\ UNCHANGED <<monitor_vars, cli_vars>>

\* what the network does when asked to create a tweet
Outcomes == {"ok", "client_error"}

\* what the write of the state file does
Saves == {"ok", "save_error"}

\* what can go wrong before client.post_tweet is called
Faults == {"none", "save_error", "generator_error"}

\* the lengths of the texts to post: at the limit, and one character more
TextLengths == {MaxTweetLen, MaxTweetLen + 1}

\* the calls when the state file can be written, the generator works and
\* the text is within the limit
post_tweet_begin ==
    \E force \in BOOLEAN, slug \in Slugs :
        Begin("post_tweet", force, slug, MaxTweetLen, "none")
post_reply_begin ==
    \E force \in BOOLEAN : Begin("post_reply", force, None, MaxTweetLen, "none")
post_tweet_finish == \E network \in Outcomes : Finish("post_tweet", network, "ok")
post_reply_finish == \E network \in Outcomes : Finish("post_reply", network, "ok")

\* the calls with texts of every length and collaborators that may fail
post_tweet_begin_any ==
    \E force \in BOOLEAN, slug \in Slugs, len \in TextLengths, fault \in Faults :
        Begin("post_tweet", force, slug, len, fault)
post_reply_begin_any ==
    \E force \in BOOLEAN, len \in TextLengths, fault \in Faults :
        Begin("post_reply", force, None, len, fault)
post_tweet_finish_any ==
    \E network \in Outcomes, save \in Saves : Finish("post_tweet", network, save)
post_reply_finish_any ==
    \E network \in Outcomes, save \in Saves : Finish("post_reply", network, save)

----------------------------------------------------------------------------
(* Actions of the Monitor *)

\* a call that returned and changed nothing is the last of a behaviour:
\* what can follow it is what can follow without it
Returned == \/ checked # NoTweet
            \/ returned.op \in {"get_pending_opportunities", "__init__",
                                "_calculate_relevance",
                                "_get_calculator_for_keyword",
                                "_generate_with_llm", "generate_tweet"}

\* a filter that marks the tweets it admits as seen
check_tweet_marking_seen ==
    \E tweet \in CheckTweets :
        /\ ~Returned
        /\ verdict' = is_valid_opportunity(tweet, monitor_state)
        /\ checked' = tweet
        /\ monitor_state' = IF verdict'.valid
                            THEN [monitor_state EXCEPT
                                     !.seen_tweets = Append(@, tweet.id)]
                            ELSE monitor_state
        /\ UNCHANGED <<search_run, min_likes, min_retweets, monitor_file, returned>>
        /\ UNCHANGED <<now, poster_vars, cli_vars>>

\* Monitor._is_valid_opportunity called on a tweet, on the state the
\* operations before it have left
check_tweet ==
    \E tweet \in CheckTweets :
        /\ ~Returned
        /\ verdict' = is_valid_opportunity(tweet, monitor_state)
        /\ checked' = tweet
        /\ UNCHANGED <<search_run, min_likes, min_retweets, monitor_state, monitor_file,
                       returned>>
        /\ UNCHANGED <<now, poster_vars, cli_vars>>

\* Monitor._calculate_relevance called on a tweet and a keyword
score_tweet ==
    \E tweet \in ScoreTweets, keyword \in ScoreKeywords :
        /\ ~Returned
        /\ checked' = tweet
        /\ returned' = [op |-> "_calculate_relevance", keyword |-> keyword,
                        value |-> calculate_relevance(tweet, keyword)]
        /\ UNCHANGED <<search_run, min_likes, min_retweets, monitor_state, monitor_file,
                       verdict>>
        /\ UNCHANGED <<now, poster_vars, cli_vars>>

\* Monitor._get_calculator_for_keyword called on a keyword
resolve_keyword ==
    \E keyword \in ResolveKeywords :
        /\ ~Returned
        /\ returned' = [op |-> "_get_calculator_for_keyword", keyword |-> keyword,
                        value |-> get_calculator_for_keyword(keyword)]
        /\ UNCHANGED <<search_run, min_likes, min_retweets, monitor_state, monitor_file,
                       verdict, checked>>
        /\ UNCHANGED <<now, poster_vars, cli_vars>>

\* Monitor.search_opportunities(keywords, max_per_keyword), where fetched[i]
\* is what client.search_recent does for the i-th keyword
search(keywords, max_per_keyword, fetched) ==
    /\ ~Returned
    /\ \E stored \in {store_opportunities(
                        scan_keywords(keywords, fetched, max_per_keyword, now,
                                      [st |-> monitor_state, opps |-> <<>>]))} :
          /\ monitor_state' = monitor_save_state(stored)
          /\ returned' = [op |-> "search_opportunities",
                          value |-> stored.opportunities]
    /\ monitor_file' = <<monitor_state'>>
    /\ verdict' = NoVerdict
    /\ checked' = NoTweet
    /\ UNCHANGED <<search_run, min_likes, min_retweets>>
    /\ UNCHANGED <<now, poster_vars, cli_vars>>

\* search_opportunities step by step.  Its start: the arguments, the
\* empty list opportunities
search_begin ==
    \E keywords \in KeywordLists, max_per_keyword \in 1..MaxPerKeyword :
      \E fetched \in [1..Len(keywords) -> RunFetches] :
        /\ ~Returned
        /\ search_run.pc = "idle"
        /\ Len(monitor_state.seen_tweets) < MaxRunSeen
        /\ \A j \in DOMAIN fetched :
              Len(fetched[j].tweets) <= 2 * max_per_keyword
        /\ search_run' = [pc |-> "scanning", keywords |-> keywords,
                          max_per_keyword |-> max_per_keyword,
                          fetched |-> fetched, k |-> 1, i |-> 1,
                          opportunities |-> <<>>]
        /\ returned' = NoReturn
        /\ verdict' = NoVerdict
        /\ checked' = NoTweet
        /\ UNCHANGED <<min_likes, min_retweets, monitor_state, monitor_file>>
        /\ UNCHANGED <<now, poster_vars, cli_vars>>

\* an exception that ends the loop over the keywords
after_failure_aborting(run) ==
    [run EXCEPT !.k = Len(run.keywords) + 1, !.i = 1]

\* except Exception: log the error, continue with the next keyword
after_failure(run) == [run EXCEPT !.k = @ + 1, !.i = 1]

\* one step of its loops: a keyword without calculator or a search that
\* raises is passed over; a tweet is filtered and, when admitted, gets its
\* reply, its score, its place in opportunities and its mark as seen; a
\* generator that raises ends the keyword; after the last tweet of a
\* keyword the time of the search is noted
scan_step(outcomes) ==
    /\ search_run.pc = "scanning"
    /\ search_run.k <= Len(search_run.keywords)
    /\ LET keyword == search_run.keywords[search_run.k]
           calculator == calculator_for[keyword]
           found == search_run.fetched[search_run.k]
           tweets == First(found.tweets, search_run.max_per_keyword)
           next_keyword == [search_run EXCEPT !.k = @ + 1, !.i = 1]
       IN  IF calculator = None
           THEN /\ search_run' = next_keyword
                /\ UNCHANGED monitor_state
           ELSE IF found.raises
           THEN /\ search_run' = after_failure(search_run)
                /\ UNCHANGED monitor_state
           ELSE IF search_run.i > Len(tweets)
           THEN /\ search_run' = next_keyword
                /\ monitor_state' = [monitor_state EXCEPT !.last_search[keyword] = now]
           ELSE IF ~is_valid_opportunity(tweets[search_run.i], monitor_state).valid
           THEN /\ search_run' = [search_run EXCEPT !.i = @ + 1]
                /\ UNCHANGED monitor_state
           ELSE \E provider \in outcomes :
                  LET reply == generate_reply(calculator, provider)
                  IN  IF reply.raises
                      THEN /\ search_run' = after_failure(search_run)
                           /\ UNCHANGED monitor_state
                      ELSE /\ search_run' =
                                [search_run EXCEPT
                                    !.i = @ + 1,
                                    !.opportunities =
                                        Append(@, opportunity_with_reply(
                                                      tweets[search_run.i], keyword,
                                                      calculator, reply.text))]
                           /\ monitor_state' =
                                [monitor_state EXCEPT
                                    !.seen_tweets = Append(@, tweets[search_run.i].id)]
    /\ UNCHANGED <<min_likes, min_retweets, monitor_file, verdict, checked, returned>>
    /\ UNCHANGED <<now, poster_vars, cli_vars>>

\* a step of a search whose generator has its data in order
search_step == scan_step(Providers)

\* a step of a search with any generator
search_step_any == scan_step(Generations)

\* its end: the sort, the store, the save, the returned list
search_end ==
    /\ search_run.pc = "scanning"
    /\ search_run.k > Len(search_run.keywords)
    /\ \E stored \in {[monitor_state EXCEPT
                          !.opportunities = sort_by_relevance(search_run.opportunities)]} :
          /\ monitor_state' = monitor_save_state(stored)
          /\ returned' = [op |-> "search_opportunities",
                          value |-> stored.opportunities]
    /\ monitor_file' = <<monitor_state'>>
    /\ search_run' = NoRun
    /\ UNCHANGED <<min_likes, min_retweets, verdict, checked>>
    /\ UNCHANGED <<now, poster_vars, cli_vars>>

\* ContentGenerator._generate_with_llm called for the text of a tweet
generate_tweet ==
    \E provider \in Providers :
        /\ ~Returned
        /\ search_run.pc = "idle"
        /\ returned' = [op |-> "_generate_with_llm",
                        value |-> <<generate_with_llm(provider)>>]
        /\ UNCHANGED <<search_run, min_likes, min_retweets, monitor_state,
                       monitor_file, verdict, checked>>
        /\ UNCHANGED <<now, poster_vars, cli_vars>>

\* ContentGenerator.generate_tweet from the generation of the text on: the
\* text is the provider's response as _generate_with_llm returns it, or,
\* the provider having raised, the text made from a template; the
\* hashtags are selected and the text is fitted
generate_tweet_text ==
    \E provider \in Providers, generated \in GeneratedTexts,
       hashtags \in HashtagSelections :
        /\ ~Returned
        /\ search_run.pc = "idle"
        /\ LET tweet_text == IF provider = "ok"
                             THEN llm_tweet(generated, CalculatorUrl)
                             ELSE generated
           IN  returned' = [op |-> "generate_tweet", text |-> tweet_text,
                            hashtags |-> hashtags,
                            value |-> fit_to_limit(tweet_text, hashtags)]
        /\ UNCHANGED <<search_run, min_likes, min_retweets, monitor_state,
                       monitor_file, verdict, checked>>
        /\ UNCHANGED <<now, poster_vars, cli_vars>>

\* the process is terminated during a search; a new Monitor is constructed
\* from the state file
kill ==
    /\ search_run.pc = "scanning"
    /\ monitor_state' = monitor_load_state(monitor_file)
    /\ search_run' = NoRun
    /\ returned' = [op |-> "__init__", value |-> <<>>]
    /\ UNCHANGED <<min_likes, min_retweets, monitor_file, verdict, checked>>
    /\ UNCHANGED <<now, poster_vars, cli_vars>>

\* a search with few results
search_opportunities ==
    \E keywords \in KeywordLists, max_per_keyword \in 1..MaxPerKeyword :
      \E fetched \in [1..Len(keywords) -> Fetches] :
        search(keywords, max_per_keyword, fetched)

\* a search with many results
search_opportunities_many ==
    \E s \in ManySearches : search(s.keywords, s.max_per_keyword, s.fetched)

\* the search of a busy day
search_opportunities_crowd ==
    /\ Len(monitor_state.seen_tweets) < MaxRunSeen
    /\ search(CrowdSearch.keywords, CrowdSearch.max_per_keyword, CrowdSearch.fetched)

\* a mark_replied that takes the id out of the seen list
mark_replied_unseeing ==
    \E tweet_id \in TweetIds :
        /\ ~Returned
        /\ Cardinality({i \in DOMAIN monitor_state.replied_tweets :
                            monitor_state.replied_tweets[i] \in TweetIds}) < MaxReplied
        /\ monitor_state' = monitor_save_state(
                                [monitor_state EXCEPT
                                    !.replied_tweets = Append(@, tweet_id),
                                    !.seen_tweets = SelectSeq(@, LAMBDA x : x # tweet_id)])
        /\ monitor_file' = <<monitor_state'>>
        /\ returned' = NoReturn
        /\ verdict' = NoVerdict
        /\ checked' = NoTweet
        /\ UNCHANGED <<search_run, min_likes, min_retweets>>
        /\ UNCHANGED <<now, poster_vars, cli_vars>>

\* a mark_replied that does not write the state file
mark_replied_unsaved ==
    \E tweet_id \in TweetIds :
        /\ ~Returned
        /\ Cardinality({i \in DOMAIN monitor_state.replied_tweets :
                            monitor_state.replied_tweets[i] \in TweetIds}) < MaxReplied
        /\ monitor_state' = monitor_save_state(
                                [monitor_state EXCEPT
                                    !.replied_tweets = Append(@, tweet_id)])
        /\ returned' = NoReturn
        /\ verdict' = NoVerdict
        /\ checked' = NoTweet
        /\ UNCHANGED <<search_run, min_likes, min_retweets, monitor_file>>
        /\ UNCHANGED <<now, poster_vars, cli_vars>>

\* Monitor.mark_replied(tweet_id)
mark_replied ==
    \E tweet_id \in TweetIds :
        /\ ~Returned
        /\ Cardinality({i \in DOMAIN monitor_state.replied_tweets :
                            monitor_state.replied_tweets[i] \in TweetIds}) < MaxReplied
        /\ monitor_state' = monitor_save_state(
                                [monitor_state EXCEPT
                                    !.replied_tweets = Append(@, tweet_id)])
        /\ monitor_file' = <<monitor_state'>>
        /\ returned' = NoReturn
        /\ verdict' = NoVerdict
        /\ checked' = NoTweet
        /\ UNCHANGED <<search_run, min_likes, min_retweets>>
        /\ UNCHANGED <<now, poster_vars, cli_vars>>

\* Monitor.get_pending_opportunities()
pending_opportunities ==
    /\ ~Returned
    /\ returned' = [op |-> "get_pending_opportunities",
                    value |-> get_pending_opportunities(monitor_state)]
    /\ UNCHANGED <<search_run, min_likes, min_retweets, monitor_state, monitor_file,
                   verdict, checked>>
    /\ UNCHANGED <<now, poster_vars, cli_vars>>

\* the process ends and a new Monitor is constructed from the state file
monitor_restart ==
    /\ ~Returned
    /\ monitor_state' = monitor_load_state(monitor_file)
    /\ returned' = [op |-> "__init__", value |-> <<>>]
    /\ verdict' = NoVerdict
    /\ checked' = NoTweet
    /\ UNCHANGED <<search_run, min_likes, min_retweets, monitor_file>>
    /\ UNCHANGED <<now, poster_vars, cli_vars>>

----------------------------------------------------------------------------
(* The reply command of the command line *)

\* the searches between the runs of the reply command: new tweets, and
\* tweet 1 found again
ReplySearches ==
    {[keywords |-> <<W_tip \o Sp \o W_calculator>>, max_per_keyword |-> 2,
      fetched |-> <<[raises |-> FALSE, tweets |-> <<Fresh(4), Fresh(5)>>]>>],
     [keywords |-> <<W_tip \o Sp \o W_calculator>>, max_per_keyword |-> 1,
      fetched |-> <<[raises |-> FALSE, tweets |-> <<PoolTweet(1)>>]>>],
     [keywords |-> <<W_Tip>>, max_per_keyword |-> 2,
      fetched |-> <<[raises |-> FALSE, tweets |-> <<PoolTweet(1), Fresh(8)>>]>>]}

\* the monitor command between two runs of the reply command
search_between_replies ==
    /\ reply_run.pc = "idle"
    /\ \E s \in ReplySearches : search(s.keywords, s.max_per_keyword, s.fetched)

\* what the user answers to the prompt: yes, no, edit, skip all
Answers == {"y", "n", "e", "s"}

\* the reply command up to its loop: get_monitor and get_poster construct
\* the Monitor and the Poster from their state files, and the pending
\* opportunities are listed
reply_begin ==
    /\ reply_run.pc = "idle"
    /\ pc = "idle"
    /\ sent < MaxPosts
    /\ monitor_state' = monitor_load_state(monitor_file)
    /\ state' = load_state(poster_file)
    /\ reply_run' = [pc |-> "replying", i |-> 1,
                     pending |-> get_pending_opportunities(monitor_state')]
    /\ returned' = NoReturn
    /\ verdict' = NoVerdict
    /\ checked' = NoTweet
    /\ result' = NoResult
    /\ raised' = None
    /\ created' = FALSE
    /\ UNCHANGED <<now, max_posts_per_day, min_hours_between, poster_file, pc,
                   call, made, made_unforced, last_made, sent>>
    /\ UNCHANGED <<min_likes, min_retweets, monitor_file, search_run, replied_to>>

\* one pass of its loop over the pending opportunities: get_status, which
\* ends the loop when the quota blocks; the user's answer; for yes and
\* edit post_reply, without force, and mark_replied when it succeeded
reply_step ==
    /\ reply_run.pc = "replying"
    /\ reply_run.i <= Len(reply_run.pending)
    /\ LET opp == reply_run.pending[reply_run.i]
           rolled == reset_daily_counters(state, now)
           rolled_file == file_after_reset(state, now, poster_file)
           break == [reply_run EXCEPT !.i = Len(reply_run.pending) + 1]
           next == [reply_run EXCEPT !.i = @ + 1]
       IN  \E status \in can_post(rolled, now), answer \in Answers,
              len \in TextLengths, network \in Outcomes :
             LET posted == client_post_tweet(len, network)
             IN  IF ~status.ok \/ answer \in {"s", "n"} \/ posted.raises
                 THEN /\ reply_run' = IF ~status.ok \/ answer = "s" THEN break
                                      ELSE next
                      /\ state' = rolled
                      /\ poster_file' = rolled_file
                      /\ result' = IF ~status.ok
                                   THEN [op |-> "can_post", force |-> FALSE,
                                         success |-> FALSE,
                                         reason |-> status.reason,
                                         wait |-> status.wait]
                                   ELSE IF answer \in {"s", "n"} THEN NoResult
                                   ELSE [op |-> "post_reply", force |-> FALSE,
                                         success |-> FALSE,
                                         reason |-> posted.error,
                                         wait |-> NoWait]
                      /\ created' = (status.ok /\ answer \in {"y", "e"}
                                        /\ posted.created)
                      /\ UNCHANGED <<made, made_unforced, last_made, sent,
                                     monitor_state, monitor_file, replied_to>>
                 ELSE /\ sent < MaxPosts
                      /\ reply_run' = next
                      /\ state' = reply_update(rolled, now)
                      /\ poster_file' = <<state'>>
                      /\ result' = [op |-> "post_reply", force |-> FALSE,
                                    success |-> TRUE, reason |-> "ok",
                                    wait |-> NoWait]
                      /\ created' = TRUE
                      /\ made' = [made EXCEPT ![today(now)] = @ + 1]
                      /\ made_unforced' = [made_unforced EXCEPT ![today(now)] = @ + 1]
                      /\ last_made' = now
                      /\ sent' = sent + 1
                      /\ monitor_state' =
                            monitor_save_state(
                                [monitor_state EXCEPT
                                    !.replied_tweets = Append(@, opp.tweet_id)])
                      /\ monitor_file' = <<monitor_state'>>
                      /\ replied_to' = replied_to (+) SetToBag({opp.tweet_id})
    /\ raised' = None
    /\ UNCHANGED <<now, max_posts_per_day, min_hours_between, pc, call>>
    /\ UNCHANGED <<min_likes, min_retweets, verdict, checked, returned, search_run>>

\* the end of the command, after the loop
reply_end ==
    /\ reply_run.pc = "replying"
    /\ reply_run.i > Len(reply_run.pending)
    /\ reply_run' = NoReplyRun
    /\ result' = NoResult
    /\ raised' = None
    /\ created' = FALSE
    /\ UNCHANGED <<now, max_posts_per_day, min_hours_between, state, poster_file,
                   pc, call, made, made_unforced, last_made, sent>>
    /\ UNCHANGED <<monitor_vars, replied_to>>

----------------------------------------------------------------------------
(* Specifications *)

Next ==
    \/ Tick
    \/ get_status
    \/ post_tweet_begin
    \/ post_reply_begin
    \/ post_tweet_finish
    \/ post_reply_finish

\* the Poster, with the clock
Spec == Init /\ [][Next]_vars

NextMonitor ==
    \/ search_opportunities
    \/ mark_replied
    \/ pending_opportunities
    \/ monitor_restart
    \/ check_tweet

\* the Monitor
SpecMonitor == InitMonitor /\ [][NextMonitor]_vars

\* the Monitor and the Poster with their lists at the bounds
NextRetention ==
    \/ search_opportunities_many
    \/ mark_replied
    \/ post_tweet_begin
    \/ post_tweet_finish

SpecRetention == InitRetention /\ [][NextRetention]_vars

\* the Monitor with its search followed step by step
NextRun ==
    \/ search_begin
    \/ search_step
    \/ search_end
    \/ kill
    \/ generate_tweet

SpecRun == InitFaults /\ [][NextRun]_vars

\* the same with a generator that may raise
NextRunFaults ==
    \/ search_begin
    \/ search_step_any
    \/ search_end
    \/ kill

SpecRunFaults == InitFaults /\ [][NextRunFaults]_vars

\* the monitor and reply commands run one after the other on the state
\* files of a long run, the clock advancing
NextReply ==
    \/ Tick
    \/ search_between_replies
    \/ reply_begin
    \/ reply_step
    \/ reply_end

SpecReply == InitReply /\ [][NextReply]_vars

\* the searches of the Monitor, small and large
NextSeen ==
    \/ search_opportunities
    \/ search_opportunities_crowd

SpecSeen == InitMonitor /\ [][NextSeen]_vars

NextGenerate == generate_tweet_text

\* the texts of the tweets the generator makes
SpecGenerate == InitMonitor /\ [][NextGenerate]_vars

NextKeyword == resolve_keyword

\* the calculator of every keyword
SpecKeyword == InitMonitor /\ [][NextKeyword]_vars

NextRelevance == score_tweet

\* the relevance score of every tweet and keyword
SpecRelevance == InitMonitor /\ [][NextRelevance]_vars

\* the Poster with collaborators that may fail
NextFaults ==
    \/ Tick
    \/ post_tweet_begin_any
    \/ post_reply_begin_any
    \/ post_tweet_finish_any
    \/ post_reply_finish_any

SpecFaults == InitFaults /\ [][NextFaults]_vars

NextWait == get_status

\* the quota check at every elapsed time since the last post
SpecWait == InitWait /\ [][NextWait]_vars

----------------------------------------------------------------------------
(* Steps of the posting model, as the claims speak of them *)

\* a post_tweet or post_reply call returns success in this step
Posted == made' # made

\* ... and it was called without force
PostedUnforced == made_unforced' # made_unforced

\* ... and it was called with force=True
PostedForced == Posted /\ ~PostedUnforced

\* Poster.can_post runs in this step: get_status, or a non-forced call's check
QuotaCheck == get_status \/ (pc = "idle" /\ (pc' = "posting" => ~call'.force)
                             /\ (post_tweet_begin \/ post_reply_begin)
                             /\ (pc' = "posting" \/ result' # result \/ state' # state))

\* the three blocking conditions, read off the quota state and the clock
LimitReached == state.posts_today >= max_posts_per_day
TooRecent == /\ state.last_post_time # NoTime
             /\ now - state.last_post_time < min_hours_between * SecondsPerHour
OffDay == weekday(now) \notin days

QuotaReasons == {"daily_limit_reached", "too_soon_since_last_post",
                 "not_a_posting_day", "OK"}

----------------------------------------------------------------------------
(* C1: on one Poster that is only ever called without force, the number of
   successful posts made on one calendar day never exceeds
   max_posts_per_day, whatever the clock does between the quota check and
   the post. *)
C1_DailyLimitRespected ==
    (\A d \in Days : made[d] = made_unforced[d])
        => \A d \in Days : made_unforced[d] <= max_posts_per_day

(* C2: every non-forced successful post is made at least
   min_hours_between_posts after the previous successful post of either
   kind, also across midnight; and a quota check blocks for
   too_soon_since_last_post only when a successful post lies less than
   min_hours_between_posts back, so a failed post restarts nothing. *)
C2_MinSpacing ==
    [][ /\ (PostedUnforced /\ last_made # NoTime)
            => now' - last_made >= min_hours_between * SecondsPerHour
        /\ (result'.reason = "too_soon_since_last_post")
            => /\ last_made' # NoTime
               /\ now' - last_made' < min_hours_between * SecondsPerHour ]_vars

\* a non-forced post has just succeeded on day 1, a day after a post on day 0
C2_Witness ==
    /\ min_hours_between > 0
    /\ result.success /\ ~result.force /\ result.op \in {"post_tweet", "post_reply"}
    /\ made[0] = 1 /\ made_unforced[1] = 1
    /\ today(now) = 1

(* C3: a quota check that finds a day marker other than the current date
   sets the marker to today, sets posts_today to 0 and empties the per-day
   posted-content list before it evaluates the daily limit; it never blocks
   for daily_limit_reached then. *)
C3_RolloverBeforeLimit ==
    [][ (QuotaCheck /\ state.today_date # today(now))
            => /\ state'.today_date = today(now)
               /\ state'.posts_today = 0
               /\ state'.posted_calculators = <<>>
               /\ result'.reason # "daily_limit_reached" ]_vars

\* a quota check has just run on a state that was full the day before
C3_Witness ==
    /\ result.op = "can_post"
    /\ state.today_date = 1
    /\ state.posts_today = 0
    /\ made[0] >= max_posts_per_day
    /\ made[1] = 0

(* C4: the quota check reports the first blocking condition in the order
   daily_limit_reached, too_soon_since_last_post, not_a_posting_day, and
   allows the post exactly when none of the three holds. *)
C4_FirstBlockingReason ==
    result.reason \in QuotaReasons
        => /\ result.reason = "daily_limit_reached" <=> LimitReached
           /\ result.reason = "too_soon_since_last_post"
                  <=> (~LimitReached /\ TooRecent)
           /\ result.reason = "not_a_posting_day"
                  <=> (~LimitReached /\ ~TooRecent /\ OffDay)
           /\ result.reason = "OK"
                  <=> (~LimitReached /\ ~TooRecent /\ ~OffDay)
           /\ result.success <=> result.reason = "OK"

\* all three conditions hold at once and the check has named the first
C4_Witness ==
    /\ result.reason = "daily_limit_reached"
    /\ LimitReached /\ TooRecent /\ OffDay

(* C5: a successful post with force=True leaves the quota state as a
   successful non-forced post from the same state at the same time would:
   rolled over to the current date first, then updated. *)
C5_ForcedSameAsUnforced ==
    [][ PostedForced
            => state' = IF call.op = "post_tweet"
                        THEN tweet_update(reset_daily_counters(state, now), now, call.slug)
                        ELSE reply_update(reset_daily_counters(state, now), now) ]_vars

(* C6, as stated: every successful post_tweet and post_reply sets
   last_post_time to now, adds 1 to posts_today, appends to the per-day
   posted-content list and appends one entry to the history. *)
C6_AsStated ==
    [][ Posted
            => /\ state'.last_post_time = now
               /\ state'.posts_today = state.posts_today + 1
               /\ Len(state'.posted_calculators) = Len(state.posted_calculators) + 1
               /\ Len(state'.history) = Len(state.history) + 1 ]_vars

(* C6, amended: every successful post_tweet and post_reply sets
   last_post_time to now and adds exactly 1 to posts_today; a successful
   post_tweet also appends one entry to the history (kept to its last 100)
   and appends the calculator slug to the per-day list when the tweet has
   one; a successful post_reply leaves both lists as they were. *)
C6_PostUpdates ==
    [][ Posted
            => /\ state'.last_post_time = now
               /\ state'.posts_today = state.posts_today + 1
               /\ state'.today_date = state.today_date
               /\ call.op = "post_tweet"
                    => /\ state'.history =
                            Last(state.history \o <<[calculator |-> call.slug]>>,
                                 HistoryMax)
                       /\ state'.posted_calculators =
                            IF call.slug \in Calculators
                            THEN state.posted_calculators \o <<call.slug>>
                            ELSE state.posted_calculators
               /\ call.op = "post_reply"
                    => /\ state'.history = state.history
                       /\ state'.posted_calculators = state.posted_calculators ]_vars

\* a reply has just been posted, after a tweet that named a calculator
C6_Witness ==
    /\ result.op = "post_reply" /\ result.success
    /\ Len(state.history) = 1
    /\ Len(state.posted_calculators) = 1
    /\ state.posts_today = 2

\* the seconds still to wait when a check finds the last post too recent
Remaining == min_hours_between * SecondsPerHour - (now - state.last_post_time)

\* ceil(Remaining / 60)
RemainingMinutesUp == (Remaining + SecondsPerMinute - 1) \div SecondsPerMinute

(* C7, as stated: when the check blocks for too_soon_since_last_post the
   reported wait is ceil((min_hours_between_posts - hours_since_last) * 60)
   minutes, for every elapsed time. *)
C7_AsStated ==
    result.reason = "too_soon_since_last_post" => result.wait = RemainingMinutesUp

(* C7, amended: the reported wait is (min_hours_between_posts -
   hours_since_last) * 60 truncated, not rounded up.  When the time left
   is not a whole number of minutes it is the ceiling minus 1; when it is a
   whole number of minutes it is that number, or one less where the
   floating-point product falls just below it; after a whole number of
   hours it is exact, so 180 with 4 hours and the last post 1 hour ago. *)
C7_WaitTruncated ==
    result.reason = "too_soon_since_last_post"
        => /\ Remaining % SecondsPerMinute # 0
                => result.wait = RemainingMinutesUp - 1
           /\ Remaining % SecondsPerMinute = 0
                => result.wait \in {RemainingMinutesUp - 1, RemainingMinutesUp}
           /\ (now - state.last_post_time) % SecondsPerHour = 0
                => result.wait = RemainingMinutesUp
           /\ (min_hours_between = 4 /\ now - state.last_post_time = SecondsPerHour)
                => result.wait = 180

\* a check 1 hour and 15 seconds after the last post, with 4 hours required
C7_Witness ==
    /\ result.reason = "too_soon_since_last_post"
    /\ min_hours_between = 4
    /\ now - state.last_post_time = SecondsPerHour + 15
    /\ result.wait = 179

(* C8: posts_today never decreases while the day marker is unchanged; it
   drops only to 0 and only in a step that moves the day marker to the
   current date; and such a reset never removes a post that was already
   made on, and counted for, the date the marker moves to. *)
C8_ResetNeverRetroactive ==
    [][ /\ state'.today_date = state.today_date
            => state'.posts_today >= state.posts_today
        /\ state'.posts_today < state.posts_today
            => /\ state'.posts_today = 0
               /\ state'.today_date # state.today_date
               /\ state'.today_date = today(now)
        /\ state'.today_date # state.today_date
            => made[state'.today_date] = 0 ]_vars

----------------------------------------------------------------------------
(* The candidate filter, as the claims speak of it *)

Seen(id) == \E i \in DOMAIN monitor_state.seen_tweets :
                monitor_state.seen_tweets[i] = id
Replied(id) == \E i \in DOMAIN monitor_state.replied_tweets :
                monitor_state.replied_tweets[i] = id

SameIgnoringCase(a, b) ==
    /\ Len(a) = Len(b)
    /\ \A i \in 1..Len(a) : LowerChar(a[i]) = LowerChar(b[i])

Blacklisted(tweet) == \E b \in blacklist : SameIgnoringCase(b, tweet.author_username)
FewFollowers(tweet) == tweet.author_followers < min_followers
FewLikes(tweet) == tweet.like_count < min_likes
FewRetweets(tweet) == tweet.retweet_count < min_retweets

Filtered == checked # NoTweet

(* C9, as stated: a message whose id is in the replied set is rejected with
   the reason "already replied", whether or not the id is also in the seen
   set, the author is blacklisted or the engagement is too low. *)
C9_AsStated ==
    (Filtered /\ Replied(checked.id))
        => (~verdict.valid /\ verdict.reason = "Already replied")

(* C9, amended: a message whose id is in the replied set is always
   rejected, whatever its author and engagement; the reason is "already
   replied" when the id is not in the seen set and "already seen" when it
   is also in the seen set. *)
C9_RepliedRejected ==
    (Filtered /\ Replied(checked.id))
        => /\ ~verdict.valid
           /\ verdict.reason = IF Seen(checked.id) THEN "Already seen"
                               ELSE "Already replied"

\* a replied, unseen message of a blacklisted author with too few followers,
\* likes and retweets has been rejected as already replied
C9_Witness ==
    /\ Filtered
    /\ Replied(checked.id) /\ ~Seen(checked.id)
    /\ Blacklisted(checked) /\ FewFollowers(checked)
    /\ FewLikes(checked) /\ FewRetweets(checked)
    /\ verdict.reason = "Already replied"

(* C10: for a message in neither the seen nor the replied set the filter
   reports the first failing check in the order blacklisted author (handle
   compared without regard to case), too few followers, too few likes, too
   few retweets, and admits the message exactly when none of them fails. *)
C10_FirstFailingCheck ==
    (Filtered /\ ~Seen(checked.id) /\ ~Replied(checked.id))
        => /\ verdict.reason = "Blacklisted author" <=> Blacklisted(checked)
           /\ verdict.reason = "Too few followers"
                <=> (~Blacklisted(checked) /\ FewFollowers(checked))
           /\ verdict.reason = "Too few likes"
                <=> (~Blacklisted(checked) /\ ~FewFollowers(checked)
                     /\ FewLikes(checked))
           /\ verdict.reason = "Too few retweets"
                <=> (~Blacklisted(checked) /\ ~FewFollowers(checked)
                     /\ ~FewLikes(checked) /\ FewRetweets(checked))
           /\ verdict.reason = "OK"
                <=> (~Blacklisted(checked) /\ ~FewFollowers(checked)
                     /\ ~FewLikes(checked) /\ ~FewRetweets(checked))
           /\ verdict.valid <=> verdict.reason = "OK"

\* every check fails at once, on a handle spelled in another case than the
\* blacklist's, and the filter has named the first
C10_Witness ==
    /\ Filtered /\ ~Seen(checked.id) /\ ~Replied(checked.id)
    /\ checked.author_username \notin blacklist
    /\ Blacklisted(checked) /\ FewFollowers(checked)
    /\ FewLikes(checked) /\ FewRetweets(checked)
    /\ verdict.reason = "Blacklisted author"

----------------------------------------------------------------------------
(* The monitor's lists, as the claims speak of them *)

SeenIds(st) == {st.seen_tweets[i] : i \in DOMAIN st.seen_tweets}
RepliedIds(st) == {st.replied_tweets[i] : i \in DOMAIN st.replied_tweets}
KnownIds(st) == SeenIds(st) \cup RepliedIds(st)
StoredIds(st) == {st.opportunities[i].tweet_id : i \in DOMAIN st.opportunities}

\* a search_opportunities call returns in this step
SearchStep == /\ returned'.op = "search_opportunities"
              /\ <<monitor_state, returned>>' # <<monitor_state, returned>>

\* the ids of the opportunities that call has created
CreatedIds == {returned.value[i].tweet_id : i \in DOMAIN returned.value}

(* C11, as stated: an id that is in the seen list or the replied list stays
   in one of them for ever, and no later search creates an opportunity for
   it. *)
C11_AsStated ==
    [][ /\ KnownIds(monitor_state) \subseteq KnownIds(monitor_state')
        /\ SearchStep => CreatedIds' \cap KnownIds(monitor_state) = {} ]_vars

(* C11, amended: while an id is in the seen list or the replied list, a
   search passes it over and creates no opportunity for it.  An id leaves
   the seen list only when the list is cut to its 500 newest entries, and
   the replied list only when that list is cut to its 200 newest; an id
   that has left both can become an opportunity again. *)
C11_KnownWhileRetained ==
    [][ /\ SearchStep => CreatedIds' \cap KnownIds(monitor_state) = {}
        /\ ~(SeenIds(monitor_state) \subseteq SeenIds(monitor_state'))
              => /\ Len(monitor_state'.seen_tweets) = SeenMax
                 /\ Len(monitor_state.seen_tweets) + Cardinality(CreatedIds') > SeenMax
        /\ ~(RepliedIds(monitor_state) \subseteq RepliedIds(monitor_state'))
              => /\ Len(monitor_state'.replied_tweets) = RepliedMax
                 /\ Len(monitor_state.replied_tweets) = RepliedMax ]_vars

\* tweet 1, seen and replied to long ago, has left both lists and a search
\* has made it an opportunity again
C11_Witness ==
    /\ returned.op = "search_opportunities"
    /\ 1 \in CreatedIds
    /\ Len(monitor_state.seen_tweets) = SeenMax
    /\ Len(monitor_state.replied_tweets) = RepliedMax
    /\ 1 \notin RepliedIds(monitor_state)

(* C12, as stated: no id is in the seen list and in the replied list at
   once. *)
C12_AsStated ==
    SeenIds(monitor_state) \cap RepliedIds(monitor_state) = {}

(* C12, amended: mark_replied(id) appends the id to the replied list (cut
   to its 200 newest entries) and leaves the seen list as it is, so an id
   that a search found and that was then marked replied is in both lists. *)
C12_ReplyKeepsSeen ==
    [][ mark_replied
            => /\ monitor_state'.seen_tweets = monitor_state.seen_tweets
               /\ monitor_state'.replied_tweets[Len(monitor_state'.replied_tweets)]
                    \in TweetIds
               /\ \A k \in 1..(Len(monitor_state'.replied_tweets) - 1) :
                     monitor_state'.replied_tweets[k]
                       = monitor_state.replied_tweets
                           [k + Len(monitor_state.replied_tweets) + 1
                              - Len(monitor_state'.replied_tweets)]
               /\ Len(monitor_state'.replied_tweets)
                    = IF Len(monitor_state.replied_tweets) < RepliedMax
                      THEN Len(monitor_state.replied_tweets) + 1
                      ELSE RepliedMax ]_vars

\* a tweet that a search found and stored has been marked replied: it is in
\* both lists
C12_Witness ==
    /\ returned.op = "none"
    /\ SeenIds(monitor_state) \cap RepliedIds(monitor_state)
          \cap StoredIds(monitor_state) # {}

(* C13: a stored opportunity that has not been replied to is still stored
   after every step, unless the store was cut to its 50-entry bound. *)
C13_StoredUntilReplied ==
    [][ \/ (StoredIds(monitor_state) \ RepliedIds(monitor_state'))
                \subseteq StoredIds(monitor_state')
        \/ Len(monitor_state'.opportunities) = OpportunitiesMax ]_vars

\* the places in the store of the opportunities not replied to
PendingPlaces(st) == {i \in DOMAIN st.opportunities :
                        st.opportunities[i].tweet_id \notin RepliedIds(st)}

(* C14: get_pending_opportunities returns the stored opportunities whose
   id is not in the replied list, all of them, once each and in the order
   of the store, and leaves the monitor state and its file as they were. *)
C14_PendingExact ==
    [][ returned'.op = "get_pending_opportunities"
            => /\ Len(returned'.value) = Cardinality(PendingPlaces(monitor_state'))
               /\ \A i \in PendingPlaces(monitor_state') :
                    returned'.value[Cardinality({j \in PendingPlaces(monitor_state') :
                                                    j <= i})]
                        = monitor_state'.opportunities[i]
               /\ monitor_state' = monitor_state
               /\ monitor_file' = monitor_file ]_vars

\* the listing has left out some stored opportunities and returned others
C14_Witness ==
    /\ returned.op = "get_pending_opportunities"
    /\ Len(returned.value) > 0
    /\ Len(returned.value) < Len(monitor_state.opportunities)

(* C15: when mark_replied(id) has returned, the state file holds the id in
   its replied list; a Monitor constructed from the file has the file's
   state, so the id is in its replied list and not among its pending
   opportunities. *)
C15_RepliedDurable ==
    [][ /\ mark_replied
            => LET id == monitor_state'.replied_tweets
                            [Len(monitor_state'.replied_tweets)]
                   disk == monitor_load_state(monitor_file')
               IN  /\ id \in RepliedIds(disk)
                   /\ \A i \in DOMAIN get_pending_opportunities(disk) :
                         get_pending_opportunities(disk)[i].tweet_id # id
        /\ returned'.op = "__init__"
            => /\ monitor_file' = monitor_file
               /\ monitor_state' = monitor_load_state(monitor_file) ]_vars

\* a Monitor constructed after a stored opportunity was marked replied:
\* the id is in its replied list and is not pending
C15_Witness ==
    /\ returned.op = "__init__"
    /\ \E id \in RepliedIds(monitor_state) \cap StoredIds(monitor_state) :
          \A i \in DOMAIN get_pending_opportunities(monitor_state) :
              get_pending_opportunities(monitor_state)[i].tweet_id # id

BlacklistedAuthor(o) == \E b \in blacklist : SameIgnoringCase(b, o.author)

(* C16: no opportunity that get_pending_opportunities lists has an author
   whose handle is in the blacklist, compared without regard to case. *)
C16_NoBlacklistedPending ==
    \A i \in DOMAIN get_pending_opportunities(monitor_state) :
        ~BlacklistedAuthor(get_pending_opportunities(monitor_state)[i])

\* after a mark_replied and a later search there are pending opportunities
C16_Witness ==
    /\ returned.op = "search_opportunities"
    /\ RepliedIds(monitor_state) # {}
    /\ get_pending_opportunities(monitor_state) # <<>>
    /\ blacklist # {}

----------------------------------------------------------------------------
(* Retention and order, as the claims speak of them *)

\* the n newest entries of a list
Newest(s, n) == IF Len(s) <= n THEN s ELSE SubSeq(s, Len(s) - n + 1, Len(s))

\* new is old with k entries appended, cut to its n newest
KeptNewest(old, new, k, n) ==
    /\ k <= Len(new)
    /\ new = Newest(old \o SubSeq(new, Len(new) - k + 1, Len(new)), n)

(* C17: a search leaves in the seen list the 500 newest entries of the
   list with the ids of its opportunities appended, mark_replied leaves
   in the replied list the 200 newest of the list with its id appended,
   post_tweet leaves in the post history the 100 newest of the history
   with its entry appended, all in their order: the oldest entries go
   first and the newest stays.  What is saved is what is kept. *)
C17_NewestRetained ==
    [][ /\ IF SearchStep
           THEN /\ KeptNewest(monitor_state.seen_tweets, monitor_state'.seen_tweets,
                              Len(returned'.value), SeenMax)
                /\ CreatedIds' \subseteq SeenIds(monitor_state')
           ELSE monitor_state'.seen_tweets = monitor_state.seen_tweets
        /\ IF mark_replied
           THEN KeptNewest(monitor_state.replied_tweets,
                           monitor_state'.replied_tweets, 1, RepliedMax)
           ELSE monitor_state'.replied_tweets = monitor_state.replied_tweets
        /\ IF Posted /\ call.op = "post_tweet"
           THEN KeptNewest(state.history, state'.history, 1, HistoryMax)
           ELSE state'.history = state.history
        /\ monitor_file' # monitor_file => monitor_file' = <<monitor_state'>>
        /\ poster_file' # poster_file => poster_file' = <<state'>> ]_vars

\* all three lists are full, have lost their oldest entry and end with the
\* entry appended last
C17_Witness ==
    /\ Len(monitor_state.seen_tweets) = SeenMax
    /\ 1 \notin SeenIds(monitor_state)
    /\ monitor_state.seen_tweets[SeenMax] \in FreshIds
    /\ Len(monitor_state.replied_tweets) = RepliedMax
    /\ 1 \notin RepliedIds(monitor_state)
    /\ monitor_state.replied_tweets[RepliedMax] \in TweetIds
    /\ Len(state.history) = HistoryMax
    /\ state.history[1].calculator # None
    /\ sent = MaxPosts

\* the place of an id in a list of ids
Place(ids, id) == CHOOSE i \in DOMAIN ids : ids[i] = id

\* opps is in descending order of score, and opportunities of equal score
\* are in the order of the list found of ids
InOrder(opps, found) ==
    \A i \in 1..(Len(opps) - 1) :
        /\ opps[i].relevance_score >= opps[i + 1].relevance_score
        /\ opps[i].relevance_score = opps[i + 1].relevance_score
              => Place(found, opps[i].tweet_id) < Place(found, opps[i + 1].tweet_id)

\* the ids a search has appended to the seen list, in the order it met them
Found(st, n) == SubSeq(st.seen_tweets, Len(st.seen_tweets) - n + 1,
                       Len(st.seen_tweets))

(* C18: the list search_opportunities returns, and the list it stores, are
   in descending order of relevance_score; opportunities of equal score
   are in the order in which the search met them (keyword after keyword,
   result after result). *)
C18_SortedStable ==
    [][ SearchStep
            => /\ CreatedIds' = {Found(monitor_state', Len(returned'.value))[i] :
                                    i \in 1..Len(returned'.value)}
               /\ InOrder(returned'.value,
                          Found(monitor_state', Len(returned'.value)))
               /\ InOrder(monitor_state'.opportunities,
                          Found(monitor_state', Len(returned'.value))) ]_vars

\* a search has returned opportunities of two keywords with equal score
\* next to each other, and opportunities of different score
C18_Witness ==
    /\ returned.op = "search_opportunities"
    /\ \E i \in 1..(Len(returned.value) - 1) :
          /\ returned.value[i].relevance_score = returned.value[i + 1].relevance_score
          /\ returned.value[i].matched_keyword # returned.value[i + 1].matched_keyword
    /\ \E i \in 1..(Len(returned.value) - 1) :
          returned.value[i].relevance_score > returned.value[i + 1].relevance_score

(* C19: the list a search stores is the list it returns cut to its first
   50 entries, so that no stored opportunity has a lower score than one
   that was dropped. *)
C19_KeepsBest ==
    [][ SearchStep
            => /\ Len(monitor_state'.opportunities)
                    = MinOf(Len(returned'.value), OpportunitiesMax)
               /\ \A i \in DOMAIN monitor_state'.opportunities :
                     monitor_state'.opportunities[i] = returned'.value[i] ]_vars

----------------------------------------------------------------------------
(* The relevance score, as the claim speaks of it, in hundredths *)

Indicator(b) == IF b THEN 1 ELSE 0

OccursIgnoringCase(keyword, text) ==
    \E i \in 0..(Len(text) - Len(keyword)) :
        \A j \in 1..Len(keyword) : LowerChar(text[i + j]) = LowerChar(keyword[j])

Asks(text) == \E i \in DOMAIN text : text[i] = "?"

Smaller(a, b) == IF a < b THEN a ELSE b

(* C20: the score is min(1.0, 0.5 + 0.2 [question mark] + min(0.1, 0.01
   likes) + min(0.1, 0.02 replies) + 0.1 [followers > 1000] + 0.1
   [followers > 10000] + 0.1 [keyword in the text, whatever the case]);
   it is 0.5 when every term is absent. *)
C20_RelevanceFormula ==
    returned.op = "_calculate_relevance"
        => /\ returned.value
                = Smaller(100,
                    50 + 20 * Indicator(Asks(checked.text))
                       + Smaller(10, checked.like_count)
                       + Smaller(10, 2 * checked.reply_count)
                       + 10 * Indicator(checked.author_followers > 1000)
                       + 10 * Indicator(checked.author_followers > 10000)
                       + 10 * Indicator(OccursIgnoringCase(returned.keyword,
                                                           checked.text)))
           /\ (/\ checked.like_count = 0 /\ checked.reply_count = 0
               /\ checked.author_followers = 0 /\ ~Asks(checked.text)
               /\ ~OccursIgnoringCase(returned.keyword, checked.text))
                 => returned.value = 50

\* every term at its most, the keyword spelled in another case than in the
\* text: the sum is above 1.0 and the score is 1.0
C20_Witness ==
    /\ returned.op = "_calculate_relevance"
    /\ checked.text = W_Tip \o Q
    /\ returned.keyword = W_tip
    /\ checked.like_count = MaxScoreLikes
    /\ checked.reply_count = MaxScoreReplies
    /\ checked.author_followers > 10000
    /\ returned.value = 100

----------------------------------------------------------------------------
(* Claims about the score as a function of the engagement *)

\* the tweet the score was computed for, with one count changed
WithLikes(n) == [checked EXCEPT !.like_count = n]
WithReplies(n) == [checked EXCEPT !.reply_count = n]
WithFollowers(n) == [checked EXCEPT !.author_followers = n]

\* the follower counts a score is computed for
ScoreFollowers == {t.author_followers : t \in ScoreTweets}

Scored == returned.op = "_calculate_relevance"

(* C21: with the text and the matched keyword fixed, the relevance score
   does not decrease when like_count grows, when reply_count grows, or when
   the author's follower count grows, each taken separately: the score of
   the tweet that was scored is at most the score of the same tweet with
   more likes, with more replies, or with more followers. *)
C21_Monotone ==
    Scored =>
        /\ \A n \in checked.like_count..MaxScoreLikes :
              returned.value <= calculate_relevance(WithLikes(n), returned.keyword)
        /\ \A n \in checked.reply_count..MaxScoreReplies :
              returned.value <= calculate_relevance(WithReplies(n), returned.keyword)
        /\ \A n \in {f \in ScoreFollowers : f >= checked.author_followers} :
              returned.value <= calculate_relevance(WithFollowers(n), returned.keyword)

\* a tweet was scored below the cap at 9 likes, and one like more raises
\* its score: the like bonus is still growing there
C21_Witness ==
    /\ Scored
    /\ checked.like_count = 9
    /\ returned.value < 100
    /\ returned.value < calculate_relevance(WithLikes(10), returned.keyword)
    /\ returned.value = calculate_relevance(WithLikes(MaxScoreLikes), returned.keyword) - 1

----------------------------------------------------------------------------
(* Claims about failing posts *)

PostOps == {"post_tweet", "post_reply"}

BlockReasons == {"daily_limit_reached", "too_soon_since_last_post",
                 "not_a_posting_day"}

\* a post_tweet or post_reply call returns a failure result in this step
ReturnsFailure ==
    /\ result'.op \in PostOps
    /\ ~result'.success
    /\ pc = "posting" \/ result'.reason \in BlockReasons

\* the quota state after the rollover of the quota check at time t, which
\* touches the day marker, the counter and the per-day list
RolledOver(st, t) ==
    IF st.today_date = today(t) THEN st
    ELSE [last_post_time |-> st.last_post_time, posts_today |-> 0,
          today_date |-> today(t), posted_calculators |-> <<>>,
          history |-> st.history]

(* C24: a post_tweet or post_reply call that returns a failure result,
   whether the quota check blocked it, the client raised, the text was
   rejected or the save failed, leaves last_post_time, posts_today, the
   per-day list and the history as they were, apart from the rollover that
   the quota check of the call has done. *)
C24_FailureLeavesState ==
    [][ ReturnsFailure
            => state' = IF pc = "posting" THEN state ELSE RolledOver(state, now) ]_vars

(* C25: post_tweet and post_reply never let an exception escape, whatever
   collaborator fails; and when the quota check blocks, the result is a
   failure that carries the block reason and the client was not called. *)
C25_NeverRaises ==
    /\ raised = None
    /\ (result.op \in PostOps /\ result.reason \in BlockReasons)
            => ~result.success /\ ~created

\* the call in progress has got to client.post_tweet with a text that is
\* too long, and returns in this step
RejectsLongText == pc = "posting" /\ pc' = "idle" /\ call.len > MaxTweetLen

(* C28, as stated: a post or reply whose text is longer than 280
   characters is rejected before any network call: create_tweet is not
   invoked, the Poster returns a failure result, and the quota state is
   what it was when the call was made. *)
C28_AsStated ==
    [][ /\ created' => pc = "posting" /\ call.len <= MaxTweetLen
        /\ RejectsLongText
              => /\ ~created'
                 /\ result'.op \in PostOps /\ ~result'.success
                 /\ state' = call.entry[1] ]_vars

(* C28, amended: create_tweet is never invoked for a text longer than 280
   characters; a call that gets to the client with such a text returns a
   failure result, and leaves the quota state and the state file as its
   quota check left them: as they were when the call was made if it was
   forced, and otherwise changed at most by the daily rollover (day
   marker, posts_today, per-day list; last_post_time and history as they
   were). *)
C28_LongTextRejected ==
    [][ /\ created' => pc = "posting" /\ call.len <= MaxTweetLen
        /\ RejectsLongText
              => /\ ~created'
                 /\ result'.op \in PostOps /\ ~result'.success
                 /\ result'.reason = "tweet_too_long"
                 /\ state' = state
                 /\ poster_file' = poster_file
                 /\ sent' = sent
                 /\ call.force => state = call.entry[1]
                 /\ \/ state = call.entry[1]
                    \/ /\ state.today_date # call.entry[1].today_date
                       /\ state = [call.entry[1] EXCEPT
                                      !.today_date = state.today_date,
                                      !.posts_today = 0,
                                      !.posted_calculators = <<>>] ]_vars

\* a non-forced post of a text that is too long was rejected on a day the
\* quota check had to roll the counters over: a post had been made the day
\* before, and its count is gone
C28_Witness ==
    /\ result.reason = "tweet_too_long"
    /\ ~result.force
    /\ ~created
    /\ state.last_post_time # NoTime
    /\ today(state.last_post_time) < state.today_date
    /\ state.posts_today = 0
    /\ sent = 1

----------------------------------------------------------------------------
(* Claims about the calculator of a keyword *)

Resolved == returned.op = "_get_calculator_for_keyword"

Key(i) == KEYWORD_CALCULATOR_MAP[i][1]

\* the entries whose key is the keyword up to case, and those whose key
\* contains the keyword or is contained in it, case ignored
ExactEntries(keyword) ==
    {i \in DOMAIN KEYWORD_CALCULATOR_MAP : SameIgnoringCase(Key(i), keyword)}
PartialEntries(keyword) ==
    {i \in DOMAIN KEYWORD_CALCULATOR_MAP :
        \/ OccursIgnoringCase(keyword, Key(i))
        \/ OccursIgnoringCase(Key(i), keyword)}

(* C23: the calculator found for a keyword is the value of the entry whose
   key equals the keyword, case ignored, when there is one; otherwise the
   value of the first entry, in the map's declaration order, whose key
   contains the keyword or is contained in it; and none when no entry
   qualifies.  "mortgage calculator", however it is capitalised, gives
   mortgage-calculator. *)
C23_Resolution ==
    Resolved =>
        /\ ExactEntries(returned.keyword) # {}
              => \E i \in ExactEntries(returned.keyword) :
                    returned.value = KEYWORD_CALCULATOR_MAP[i][2]
        /\ (ExactEntries(returned.keyword) = {} /\ PartialEntries(returned.keyword) # {})
              => \E i \in PartialEntries(returned.keyword) :
                    /\ \A j \in PartialEntries(returned.keyword) : i <= j
                    /\ returned.value = KEYWORD_CALCULATOR_MAP[i][2]
        /\ PartialEntries(returned.keyword) = {} => returned.value = None
        /\ SameIgnoringCase(returned.keyword, W_mortgage \o Sp \o W_calculator)
              => returned.value = "mortgage-calculator"

\* a keyword that is no key, in capitals, was looked up; several entries
\* with different calculators qualify, and the first of them was taken
C23_Witness ==
    /\ Resolved
    /\ returned.keyword = upper(W_calculator)
    /\ ExactEntries(returned.keyword) = {}
    /\ Cardinality({KEYWORD_CALCULATOR_MAP[i][2] : i \in PartialEntries(returned.keyword)}) > 1
    /\ returned.value = "fire-calculator"

----------------------------------------------------------------------------
(* Claims about the filter as a function *)

\* _is_valid_opportunity is evaluated in this step
FilterStep == checked = NoTweet /\ checked' # NoTweet /\ verdict' # NoVerdict

(* C29: evaluating the filter changes no monitor state: the seen list, the
   replied list, the stored opportunities, the search times and the state
   file are what they were, and so are the thresholds; and the decision
   and reason it gave are the ones it gives when evaluated again on the
   same tweet and the state it has left. *)
C29_FilterPure ==
    [][ FilterStep
            => /\ monitor_state' = monitor_state
               /\ monitor_file' = monitor_file
               /\ <<min_likes, min_retweets>>' = <<min_likes, min_retweets>>
               /\ verdict' = is_valid_opportunity(checked', monitor_state') ]_vars

\* the filter has admitted a tweet while another tweet was seen, replied
\* to and stored
C29_Witness ==
    /\ checked # NoTweet
    /\ verdict.valid
    /\ monitor_state.seen_tweets # <<>>
    /\ monitor_state.replied_tweets # <<>>
    /\ monitor_state.opportunities # <<>>
    /\ monitor_file = <<monitor_state>>

----------------------------------------------------------------------------
(* Claims about a search followed step by step *)

ScoresOf(opps) == {opps[i].relevance_score : i \in DOMAIN opps}

\* the scores of all opportunities there are: those of the search in
\* progress, those returned, those stored in memory and in the state file
AllScores ==
    ScoresOf(search_run.opportunities)
        \cup (IF returned.op = "search_opportunities"
              THEN ScoresOf(returned.value) ELSE {})
        \cup ScoresOf(monitor_state.opportunities)
        \cup ScoresOf(monitor_load_state(monitor_file).opportunities)

(* C22: the relevance_score of every opportunity created, returned or
   stored lies between 0 and 1 (0 and 100 hundredths), however large
   like_count, reply_count and the author's follower count are, also when
   every bonus applies at once. *)
C22_ScoreInRange == \A score \in AllScores : 0 <= score /\ score <= 100

\* an opportunity was stored for a tweet that asks a question, names the
\* keyword, and has a million likes and followers: its bonuses add up to
\* more than 1, and its score is 1
C22_Witness ==
    /\ returned.op = "search_opportunities"
    /\ \E i \in DOMAIN monitor_state.opportunities :
          /\ monitor_state.opportunities[i].tweet_id = Star.id
          /\ monitor_state.opportunities[i].relevance_score = 100
          /\ OccursIgnoringCase(monitor_state.opportunities[i].matched_keyword,
                                Star.text)
    /\ Asks(Star.text)
    /\ Star.like_count > 10 /\ Star.reply_count > 5 /\ Star.author_followers > 10000
    /\ monitor_file = <<monitor_state>>

\* what a termination now would lose: the marks as seen and the search
\* times that are in memory and not in the state file
UnsavedMarks ==
    Len(monitor_state.seen_tweets)
        - Len(monitor_load_state(monitor_file).seen_tweets)
UnsavedSearchTimes ==
    Cardinality({k \in Keywords :
        monitor_state.last_search[k]
            # monitor_load_state(monitor_file).last_search[k]})

(* C26: every mutation of the quota state or of the monitor state is
   written to the state file before the next one is made, each mark of a
   tweet as seen during a search included: at any point at most one
   mutation is in memory only, so a process terminated there loses at most
   one. *)
C26_SavedBeforeNextMutation ==
    /\ UnsavedMarks + UnsavedSearchTimes <= 1
    /\ (pc = "idle" /\ raised = None) => load_state(poster_file) = state

\* the keyword a search in progress is at, what the client returned for
\* it, and the tweets of it the loop goes through
AtKeyword == search_run.pc = "scanning" /\ search_run.k <= Len(search_run.keywords)
RunKeyword == search_run.keywords[search_run.k]
RunTweets ==
    LET found == search_run.fetched[search_run.k].tweets
    IN  IF Len(found) <= search_run.max_per_keyword THEN found
        ELSE SubSeq(found, 1, search_run.max_per_keyword)
RunTweet == RunTweets[search_run.i]

\* the next step of the search is at a tweet that passes the filter
AtAdmittedTweet ==
    /\ AtKeyword
    /\ get_calculator_for_keyword(RunKeyword) # None
    /\ ~search_run.fetched[search_run.k].raises
    /\ search_run.i <= Len(RunTweets)
    /\ is_valid_opportunity(RunTweet, monitor_state).valid

ReplyTexts == {"llm", "template"}

(* C27: a provider that fails is never fatal.  Whatever the provider does,
   each tweet the filter admits during a search gets an opportunity with a
   suggested reply, the provider's or one made from a template, and is
   marked as seen; the search goes on with the next tweet, and at its end
   returns and stores every opportunity it made (the store keeps their
   last 50), unless the process is terminated.  A tweet text is likewise
   generated without raising. *)
C27_ProviderNeverFatal ==
    [][ /\ (AtAdmittedTweet /\ search_run' # NoRun)
            => /\ search_run'.opportunities # search_run.opportunities
               /\ Len(search_run'.opportunities) = Len(search_run.opportunities) + 1
               /\ LET made_now == search_run'.opportunities[Len(search_run'.opportunities)]
                  IN  /\ made_now.tweet_id = RunTweet.id
                      /\ made_now.suggested_reply \in ReplyTexts
               /\ search_run'.k = search_run.k
               /\ search_run'.i = search_run.i + 1
        /\ (search_run.pc = "scanning" /\ returned'.op = "search_opportunities")
            => /\ Len(returned'.value) = Len(search_run.opportunities)
               /\ \A o \in Members(search_run.opportunities) :
                     \E j \in DOMAIN returned'.value : returned'.value[j] = o
               /\ Len(returned'.value) <= OpportunitiesMax
                     => monitor_state'.opportunities = returned'.value
        /\ returned'.op = "_generate_with_llm"
            => /\ ~returned'.value[1].raises
               /\ returned'.value[1].text \in ReplyTexts ]_vars

\* a search has returned and stored an opportunity whose reply was made
\* from a template, the provider having failed, and one with the
\* provider's text
C27_Witness ==
    /\ returned.op = "search_opportunities"
    /\ \E i \in DOMAIN returned.value : returned.value[i].suggested_reply = "template"
    /\ \E i \in DOMAIN returned.value : returned.value[i].suggested_reply = "llm"
    /\ monitor_state.opportunities = returned.value
    /\ Len(monitor_state.seen_tweets) = Len(returned.value)

\* the opportunities the search in progress has made for its present
\* keyword, and the state the scan of that keyword started from: the marks
\* of those opportunities' tweets not yet made
MadeForKeyword ==
    Cardinality({j \in DOMAIN search_run.opportunities :
                    search_run.opportunities[j].matched_keyword = RunKeyword})
StateAtFetch ==
    [monitor_state EXCEPT
        !.seen_tweets = SubSeq(@, 1, Len(@) - MadeForKeyword)]
AdmissibleFetched ==
    LET found == search_run.fetched[search_run.k].tweets
    IN  Cardinality({j \in DOMAIN found :
                        is_valid_opportunity(found[j], StateAtFetch).valid})

\* the search is through with the tweets of its present keyword
KeywordDone ==
    /\ AtKeyword
    /\ get_calculator_for_keyword(RunKeyword) # None
    /\ ~search_run.fetched[search_run.k].raises
    /\ search_run.i > Len(RunTweets)

(* C30: a search fetches twice max_per_keyword results per keyword to make
   up for the filter: when the scan of a keyword is done, at most
   max_per_keyword opportunities were made for it, and exactly
   max_per_keyword if at least that many of the fetched tweets were
   admissible. *)
C30_FetchMakesUpForFilter ==
    KeywordDone =>
        /\ MadeForKeyword <= search_run.max_per_keyword
        /\ AdmissibleFetched >= search_run.max_per_keyword
              => MadeForKeyword = search_run.max_per_keyword

\* the next step of the search meets a failure of its present keyword:
\* the search raised
AtFailedSearch ==
    /\ AtKeyword
    /\ get_calculator_for_keyword(RunKeyword) # None
    /\ search_run.fetched[search_run.k].raises

\* what the run has in hand is kept: the arguments, the results, the
\* opportunities made so far
KeepsRun ==
    /\ search_run'.pc = "scanning"
    /\ search_run'.keywords = search_run.keywords
    /\ search_run'.fetched = search_run.fetched
    /\ search_run'.max_per_keyword = search_run.max_per_keyword

\* the step went on to the next keyword, the opportunities made so far
\* kept and no search time noted
FailedKeywordPassed ==
    /\ KeepsRun
    /\ search_run'.k = search_run.k + 1
    /\ search_run'.i = 1
    /\ search_run'.opportunities = search_run.opportunities
    /\ monitor_state'.last_search = monitor_state.last_search

(* C31: a failure at one keyword, of the search or of the generation of a
   reply, does not end the run.  The run goes on with the next keyword and
   keeps the opportunities it has made, those of the failing keyword
   included; the search time of the failing keyword is not set; and at
   its end the run returns, stores and saves every opportunity it made. *)
C31_FailureDoesNotAbort ==
    [][ /\ (AtFailedSearch /\ search_run' # NoRun) => FailedKeywordPassed
        /\ (AtAdmittedTweet /\ search_run' # NoRun)
              => \/ FailedKeywordPassed
                 \/ /\ KeepsRun
                    /\ search_run'.k = search_run.k
                    /\ search_run'.i = search_run.i + 1
                    /\ Len(search_run'.opportunities) = Len(search_run.opportunities) + 1
        /\ (search_run.pc = "scanning" /\ returned'.op = "search_opportunities")
              => /\ Len(returned'.value) = Len(search_run.opportunities)
                 /\ \A o \in Members(search_run.opportunities) :
                       \E j \in DOMAIN returned'.value : returned'.value[j] = o
                 /\ monitor_state'.opportunities = returned'.value
                 /\ monitor_file' = <<monitor_state'>> ]_vars

\* a run has ended whose first keyword failed in the generation of a reply
\* after an opportunity was made for it, and whose second keyword was
\* searched all the same: the opportunities of both are returned and saved,
\* and only the second keyword has a search time
C31_Witness ==
    /\ returned.op = "search_opportunities"
    /\ monitor_file = <<monitor_state>>
    /\ monitor_state.opportunities = returned.value
    /\ \E i \in DOMAIN returned.value : returned.value[i].matched_keyword = W_Tip
    /\ \E i \in DOMAIN returned.value :
          returned.value[i].matched_keyword = W_tip \o Sp \o W_calculator
    /\ monitor_state.last_search[W_Tip] < 0
    /\ monitor_state.last_search[W_tip \o Sp \o W_calculator] >= 0

\* the fields of the quota state that can_post reads
QuotaFields(st) ==
    [posts_today |-> st.posts_today,
     last_post_time |-> st.last_post_time,
     today_date |-> st.today_date]

\* every post this Poster has made was a reply: only tweets enter the
\* history
OnlyReplies == last_made # NoTime /\ state.history = <<>>

\* a non-forced call passes the quota check in this step
PassesCheck == pc = "idle" /\ pc' = "posting" /\ ~call'.force

(* C32: replies share the quota of tweets.  A successful post_reply adds
   exactly 1 to posts_today and sets last_post_time to now, leaving the
   fields the quota check reads as a successful tweet would; so after
   replies alone a non-forced post_tweet or post_reply passes the check
   only with posts_today, replies counted, below max_posts_per_day and
   with min_hours_between_posts elapsed since the last reply. *)
C32_RepliesShareQuota ==
    [][ /\ (Posted /\ call.op = "post_reply")
            => /\ state'.posts_today = state.posts_today + 1
               /\ state'.last_post_time = now
               /\ QuotaFields(state') = QuotaFields(tweet_update(state, now, None))
        /\ (PassesCheck /\ OnlyReplies)
            => /\ state'.posts_today < max_posts_per_day
               /\ state.today_date = today(now)
                    => state.posts_today < max_posts_per_day
               /\ now - last_made >= min_hours_between * SecondsPerHour
               /\ state.last_post_time = last_made ]_vars

\* a non-forced post_tweet has just been blocked by the daily limit, which
\* replies alone have reached
C32_Witness ==
    /\ result.op = "post_tweet" /\ ~result.force /\ ~result.success
    /\ result.reason = "daily_limit_reached"
    /\ OnlyReplies
    /\ state.posts_today = max_posts_per_day
    /\ made[today(now)] = max_posts_per_day

(* C33: the text generate_tweet returns, the hashtags appended by
   _fit_to_limit, is at most 280 characters long, for every generated text,
   with the URL on a line of its own or inside a line of prose, and for
   every selection of hashtags. *)
C33_FitsLimit ==
    returned.op = "generate_tweet" => Len(returned.value) <= 280

(* C34: whenever the stored day marker is the current date, posts_today is
   the number of successful posts, tweets and replies, forced or not, this
   Poster has made on that date, whatever the order of quota checks, posts
   and advances of the clock across midnight. *)
C34_CountMatchesPosts ==
    state.today_date = today(now) => state.posts_today = made[today(now)]

\* the ids that were replied to with success more than once
RepliedAgain == {id \in BagToSet(replied_to) : CopiesIn(id, replied_to) > 1}

\* a reply to this tweet succeeds in this step
GetsReply(id) == CopiesIn(id, replied_to') > CopiesIn(id, replied_to)

(* C35, as stated: across any sequence of search runs and reply runs that
   each run to their end, no tweet id gets more than one successful
   reply. *)
C35_AsStated == RepliedAgain = {}

(* C35, amended: no tweet gets a successful reply while its id is in the
   replied list, which keeps the last 200 ids replied to, and every id in
   that list has had its reply; a tweet found again after its id has left
   both the seen and the replied list is replied to again. *)
C35_OneReplyWhileRetained ==
    [][ /\ \A id \in BagToSet(replied_to') :
              GetsReply(id)
                  => /\ id \notin Members(monitor_state.replied_tweets)
                     /\ id \in Members(monitor_state'.replied_tweets)
                     /\ CopiesIn(id, replied_to') = CopiesIn(id, replied_to) + 1
        /\ \A id \in Members(monitor_state'.replied_tweets) :
              CopiesIn(id, replied_to') >= 1 ]_vars

\* two runs of the reply command have each replied to a tweet of the
\* search before it, and both ids are in the replied list
C35_Witness ==
    /\ reply_run.pc = "idle"
    /\ sent = 2
    /\ Cardinality({id \in BagToSet(replied_to) : id < FillerBase}) >= 2
    /\ \A id \in BagToSet(replied_to) :
          id < FillerBase /\ id # 1 => id \in Members(monitor_state.replied_tweets)

\* a search returns in this step; the ids of the opportunities it made
SearchReturns == returned'.op = "search_opportunities"
MadeIds == {returned'.value[j].tweet_id : j \in DOMAIN returned'.value}

(* C36, as stated: a search marks a tweet as seen exactly when it makes an
   opportunity for it: every opportunity made in the run has its id in the
   seen list when the run saves its state, a tweet the filter rejects is
   not marked, and one id never gives two opportunities in a run. *)
C36_AsStated ==
    [][ SearchReturns
            => /\ monitor_file' = <<monitor_state'>>
               /\ MadeIds \subseteq Members(monitor_state'.seen_tweets)
               /\ Members(monitor_state'.seen_tweets)
                     \subseteq Members(monitor_state.seen_tweets) \cup MadeIds
               /\ Cardinality(MadeIds) = Len(returned'.value) ]_vars

(* C36, amended: a search marks a tweet as seen exactly when it makes an
   opportunity for it: the saved seen list is the old list followed by one
   mark for each opportunity made, cut to its last 500 ids; a tweet the
   filter rejects is not marked; one id never gives two opportunities in a
   run, and an id marked before gives none.  So the ids of the
   opportunities made are all in the saved list unless the cut removes
   them, which takes more than 500 marks after them. *)
C36_MarkedWhenCreated ==
    [][ SearchReturns
            => /\ monitor_file' = <<monitor_state'>>
               /\ Len(monitor_state'.seen_tweets)
                     = MinOf(SeenMax, Len(monitor_state.seen_tweets)
                                         + Len(returned'.value))
               /\ Members(monitor_state'.seen_tweets)
                     \subseteq Members(monitor_state.seen_tweets) \cup MadeIds
               /\ Cardinality(MadeIds) = Len(returned'.value)
               /\ MadeIds \cap Members(monitor_state.seen_tweets) = {}
               /\ Len(monitor_state.seen_tweets) + Len(returned'.value) <= SeenMax
                     => /\ MadeIds \subseteq Members(monitor_state'.seen_tweets)
                        /\ Members(monitor_state.seen_tweets)
                              \subseteq Members(monitor_state'.seen_tweets) ]_vars

\* a search of two keywords has returned one opportunity, its tweet marked
\* as seen once, after an earlier search had marked another tweet
C36_Witness ==
    /\ returned.op = "search_opportunities"
    /\ Len(returned.value) = 1
    /\ monitor_state.last_search[W_Tip] >= 0
    /\ monitor_state.last_search[W_tip \o Sp \o W_calculator] >= 0
    /\ Len(monitor_state.seen_tweets) = 2
    /\ monitor_state.seen_tweets[2] = returned.value[1].tweet_id
    /\ monitor_file = <<monitor_state>>

====
